---- MODULE Spec2Model ----
(***************************************************************************)
(* A model of the browser frontend of the mockup-to-mobile-app generator:  *)
(* the image codec helpers (validateImageFile, compressImage,              *)
(* getImageInfo), the image-to-project screen (MobileAppFromImagePage),    *)
(* the prompt-to-project screen (MobileAppFromPromptPage) and the remote   *)
(* client they call (fetch-based imageAnalysisService, axios-based         *)
(* mobileAppsApi with its 401 interceptor).                                *)
(*                                                                         *)
(* Three specifications share the variables:                               *)
(*   SpecCodec   applies the pure codec helpers to enumerated inputs;      *)
(*   Spec        the image screen with its three async handlers;           *)
(*   SpecPrompt  the prompt screen with its submit handler.                *)
(***************************************************************************)
EXTENDS Integers, Sequences, FiniteSets, TLC

VARIABLES
    args,           \* SpecCodec: the arguments the codec helpers are applied to
    ret,            \* SpecCodec: what the helpers returned, and which were applied
    localStorage,   \* [token, user]: the persisted session
    location,       \* window.location.pathname
    browser,        \* live object URLs, live anchor elements, downloads triggered
    image,          \* React state of MobileAppFromImagePage
    hImageChange,   \* the in-flight handleImageChange call
    hAnalyze,       \* the in-flight handleAnalyzeImage call
    hGenerate,      \* the in-flight handleGenerateProject call
    prompt,         \* React state of MobileAppFromPromptPage
    hSubmit,        \* the in-flight handleSubmit call
    appsPage,       \* MobileAppsPage: its component state
    hGenerateApp,   \* the handleGenerate calls of MobileAppsPage, by app
    manager         \* MobileAppManager: its component state and its calls

vars == <<args, ret, localStorage, location, browser, image, hImageChange,
          hAnalyze, hGenerate, prompt, hSubmit, appsPage, hGenerateApp,
          manager>>

(***************************************************************************)
(* JavaScript strings that the code takes apart (data URLs).  A string is  *)
(* [h, n]: the characters h followed by n further payload characters, none *)
(* of which is '/' or ';' (a '/' inside a payload is written in h).        *)
(* Messages, which the code only stores and compares, are TLA+ strings.    *)
(***************************************************************************)
Str(h, n) == [h |-> h, n |-> n]

EmptyStr == Str(<<>>, 0)

length(s) == Len(s.h) + s.n

\* The least index of character c in h, 0 when c does not occur.
IndexOf(h, c) ==
    IF \E i \in 1..Len(h) : h[i] = c
    THEN CHOOSE i \in 1..Len(h) : h[i] = c /\ \A j \in 1..(i - 1) : h[j] # c
    ELSE 0

\* s.split(c)[k]: [defined, value]; undefined when s has fewer than k+1 pieces.
RECURSIVE split(_, _, _)
split(s, c, k) ==
    LET i == IndexOf(s.h, c) IN
    IF k = 0
    THEN [defined |-> TRUE,
          value |-> IF i = 0 THEN s ELSE Str(SubSeq(s.h, 1, i - 1), 0)]
    ELSE IF i = 0
         THEN [defined |-> FALSE, value |-> EmptyStr]
         ELSE split(Str(SubSeq(s.h, i + 1, Len(s.h)), s.n), c, k - 1)

\* a || b on message strings: undefined and '' are both falsy, written "".
Or(a, b) == IF a = "" THEN b ELSE a

\* Math.round of the non-negative quotient num/den: floor(num/den + 1/2).
MathRound(num, den) == (2 * num + den) \div (2 * den)

(***************************************************************************)
(* validateImageFile                                                       *)
(***************************************************************************)
validTypes == {"image/jpeg", "image/jpg", "image/png", "image/gif", "image/webp"}

maxSize == 20 * 1024 * 1024

MsgInvalidType == "Tipo de archivo no valido. Use JPEG, PNG, GIF o WebP."
MsgTooLarge == "El archivo es demasiado grande. Maximo 20MB."

\* A variant that also rejects a file of exactly maxSize bytes.
validateImageFileGE(file) ==
    IF file.type \notin validTypes
    THEN [valid |-> FALSE, error |-> MsgInvalidType]
    ELSE IF file.size >= maxSize
         THEN [valid |-> FALSE, error |-> MsgTooLarge]
         ELSE [valid |-> TRUE, error |-> ""]

validateImageFile(file) ==
    IF file.type \notin validTypes
    THEN [valid |-> FALSE, error |-> MsgInvalidType]
    ELSE IF file.size > maxSize
         THEN [valid |-> FALSE, error |-> MsgTooLarge]
         ELSE [valid |-> TRUE, error |-> ""]

(***************************************************************************)
(* compressImage                                                           *)
(***************************************************************************)
\* The default maxWidth, which is also what fileToBase64 passes.
DefaultMaxWidth == 1024

\* A variant that rounds the number to the nearest integer instead.
ToUnsignedLongNearest(num, den) == MathRound(num, den)

\* Assigning the number num/den (>= 0) to canvas.width or canvas.height: the
\* attributes are WebIDL unsigned long, so the fraction is discarded.
ToUnsignedLong(num, den) == num \div den

\* The dimensions of the canvas after img.onload: height is the fractional
\* (height * maxWidth) / width when the source is wider than maxWidth.
canvasSize(width, height, maxWidth) ==
    IF width > maxWidth
    THEN [width |-> ToUnsignedLong(maxWidth, 1),
          height |-> ToUnsignedLong(height * maxWidth, width)]
    ELSE [width |-> ToUnsignedLong(width, 1),
          height |-> ToUnsignedLong(height, 1)]

JpegPrefix ==
    <<"d", "a", "t", "a", ":", "i", "m", "a", "g", "e", "/", "j", "p", "e",
      "g", ";", "b", "a", "s", "e", "6", "4", ",">>

\* canvas.toDataURL('image/jpeg', quality): "data:," for a canvas with no
\* pixels, else the JPEG prefix and a payload of payloadLen characters.
toDataURL(canvas, payloadLen) ==
    IF canvas.width = 0 \/ canvas.height = 0
    THEN Str(<<"d", "a", "t", "a", ":", ",">>, 0)
    ELSE Str(JpegPrefix, payloadLen)

MsgLoadError == "Error cargando imagen para compresion"

\* compressImage(file, maxWidth): the promise's outcome.  file.decodable says
\* whether img.onload (rather than img.onerror) fires; file.jpegLen is the
\* length of the payload the encoder produces for this picture.
compressImage(file, maxWidth) ==
    IF file.decodable
    THEN LET canvas == canvasSize(file.width, file.height, maxWidth) IN
         [ok |-> TRUE, error |-> "", canvas |-> canvas,
          dataUrl |-> toDataURL(canvas, file.jpegLen)]
    ELSE [ok |-> FALSE, error |-> MsgLoadError,
          canvas |-> [width |-> 0, height |-> 0], dataUrl |-> EmptyStr]

(***************************************************************************)
(* getImageInfo                                                            *)
(***************************************************************************)
unknown == Str(<<"u", "n", "k", "n", "o", "w", "n">>, 0)

\* A variant that splits the whole string at '/', not its part before ';'.
formatOfWhole(base64Image) ==
    LET tag == split(base64Image, "/", 1) IN
    IF tag.defined /\ length(tag.value) > 0 THEN tag.value ELSE unknown

formatOf(base64Image) ==
    LET tag == split(split(base64Image, ";", 0).value, "/", 1) IN
    IF tag.defined /\ length(tag.value) > 0 THEN tag.value ELSE unknown

getImageInfo(base64Image) ==
    LET base64Length == length(base64Image) IN
    [sizeKB |-> MathRound(base64Length * 3, 4 * 1024),
     format |-> formatOf(base64Image)]

(***************************************************************************)
(* Files.  A File is its declared media type and byte size, and what the   *)
(* browser finds on decoding it: whether it decodes, its pixel size, and   *)
(* the length of the JPEG payload the canvas encoder produces for it.      *)
(***************************************************************************)
File(type, size, decodable, width, height, jpegLen) ==
    [type |-> type, size |-> size, decodable |-> decodable,
     width |-> width, height |-> height, jpegLen |-> jpegLen]

NoFile == File("", 0, FALSE, 0, 0, 0)

(***************************************************************************)
(* SpecCodec: the codec helpers applied to enumerated arguments.           *)
(***************************************************************************)
MaxSrcDim == 6      \* source widths and heights 1..MaxSrcDim, and the named ones
MaxMaxWidth == 4    \* configured maxima 1..MaxMaxWidth, and the default
MaxHeadLen == 5     \* explicit characters of an enumerated string
MaxSizeKB == 4      \* payload lengths around the rounding points up to this many KB

CodecTypes ==
    validTypes \cup {"image/bmp", "image/svg+xml", "image/tiff",
                     "application/pdf", "text/plain", ""}

CodecSizes == {0, 1, maxSize - 1, maxSize, maxSize + 1, 2 * maxSize}

CodecWidths ==
    (1..MaxSrcDim) \cup {DefaultMaxWidth - 1, DefaultMaxWidth,
                         DefaultMaxWidth + 1, 2000, 5000}

CodecHeights == (1..MaxSrcDim) \cup {1001, 3000}

CodecMaxWidths == (1..MaxMaxWidth) \cup {DefaultMaxWidth}

StrChars == {"/", ";", "x"}

CodecHeads == UNION {[1..k -> StrChars] : k \in 0..MaxHeadLen}

\* Payload lengths on both sides of every point where sizeKB steps.
CodecPayloadLens ==
    {0} \cup {l \in {(4096 * k + 2048) \div 3 + d : k \in 0..MaxSizeKB, d \in -6..2} :
                l >= 0}

CodecArgs(kind, file, maxWidth, base64Image) ==
    [kind |-> kind, file |-> file, maxWidth |-> maxWidth,
     base64Image |-> base64Image]

NoArgs == CodecArgs("none", NoFile, DefaultMaxWidth, EmptyStr)

NoRet ==
    [applied |-> "none",
     validation |-> [valid |-> FALSE, error |-> ""],
     compressed |-> compressImage(NoFile, DefaultMaxWidth),
     info |-> [sizeKB |-> 0, format |-> unknown],
     path |-> "", encoded |-> [ok |-> FALSE, error |-> "", dataUrl |-> EmptyStr],
     posted |-> [sent |-> FALSE, body |-> <<>>],
     returned |-> ""]

CodecInputs ==
    {CodecArgs("validate", File(t, s, TRUE, 1, 1, 0), DefaultMaxWidth, EmptyStr) :
        t \in CodecTypes, s \in CodecSizes}
    \cup
    UNION {{CodecArgs("compress", File("image/png", 1, d, w, h, 8), m, EmptyStr) :
               w \in CodecWidths, h \in CodecHeights} :
           d \in BOOLEAN, m \in CodecMaxWidths}
    \cup
    {CodecArgs("info", NoFile, DefaultMaxWidth, Str(hd, n)) :
        hd \in CodecHeads, n \in CodecPayloadLens}
    \cup
    UNION {{CodecArgs("upload", File(t, 1, d, w, h, 8), DefaultMaxWidth, EmptyStr) :
               w \in CodecWidths, h \in CodecHeights} :
           t \in CodecTypes, d \in BOOLEAN}

ApplyValidateImageFile ==
    /\ args.kind = "validate" /\ ret.applied = "none"
    /\ ret' = [ret EXCEPT !.applied = "validate",
                          !.validation = validateImageFile(args.file)]

ApplyCompressImage ==
    /\ args.kind = "compress" /\ ret.applied = "none"
    /\ ret' = [ret EXCEPT !.applied = "compress",
                          !.compressed = compressImage(args.file, args.maxWidth)]

ApplyGetImageInfo ==
    /\ args.kind = "info" /\ ret.applied = "none"
    /\ ret' = [ret EXCEPT !.applied = "info",
                          !.info = getImageInfo(args.base64Image)]

(***************************************************************************)
(* fileToBase64                                                            *)
(***************************************************************************)
\* The media types t with t.startsWith('image/').
ImageTypes == validTypes \cup {"image/bmp", "image/svg+xml", "image/tiff"}

MaxFileUrls == 1    \* live source-file object URLs are counted up to this many

\* FileReader.readAsDataURL: "data:<type>;base64,<payload>"; the media type is
\* written "t/t", and the payload has about 4/3 of the file's bytes.
readAsDataURL(file) ==
    Str(<<"d", "a", "t", "a", ":", "t", "/", "t", ";", "b", "a", "s", "e",
          "6", "4", ",">>, 4 * ((file.size + 2) \div 3))

fileToBase64Path(file, compress) ==
    IF compress /\ file.type \in ImageTypes THEN "compressImage" ELSE "FileReader"

\* What the promise of fileToBase64(file, compress) settles to.
fileToBase64(file, compress) ==
    IF fileToBase64Path(file, compress) = "compressImage"
    THEN LET c == compressImage(file, DefaultMaxWidth) IN
         [ok |-> c.ok, error |-> c.error, dataUrl |-> c.dataUrl]
    ELSE [ok |-> TRUE, error |-> "", dataUrl |-> readAsDataURL(file)]

\* The synchronous part of fileToBase64: compressImage makes an object URL of
\* the file for img.src, and nothing revokes it.
createFileUrl(b, file, compress) ==
    IF fileToBase64Path(file, compress) = "compressImage"
    THEN [b EXCEPT !.fileUrls = IF @ < MaxFileUrls THEN @ + 1 ELSE @]
    ELSE b

\* The upload pipeline of handleImageChange on one file: validateImageFile,
\* then for an accepted file fileToBase64(file, true) and getImageInfo on
\* what it resolves to.
ApplyUpload ==
    /\ args.kind = "upload" /\ ret.applied = "none"
    /\ LET validation == validateImageFile(args.file)
           r == fileToBase64(args.file, TRUE)
       IN  ret' = IF ~validation.valid
                  THEN [ret EXCEPT !.applied = "upload", !.validation = validation]
                  ELSE [ret EXCEPT !.applied = "upload", !.validation = validation,
                                   !.path = fileToBase64Path(args.file, TRUE),
                                   !.encoded = r,
                                   !.info = IF r.ok THEN getImageInfo(r.dataUrl)
                                            ELSE @]

(***************************************************************************)
(* Browser resources of a download.  dom is the sequence of calls made.    *)
(***************************************************************************)
RECURSIVE applyDom(_, _)
applyDom(b, dom) ==
    IF dom = <<>> THEN b
    ELSE LET op == Head(dom)
             b1 == CASE op = "createObjectURL" -> [b EXCEPT !.blobUrls = @ + 1]
                     [] op = "revokeObjectURL" -> [b EXCEPT !.blobUrls = @ - 1]
                     [] op = "appendChild" -> [b EXCEPT !.anchors = @ + 1]
                     [] op = "removeChild" -> [b EXCEPT !.anchors = @ - 1]
                     [] OTHER -> b
         IN applyDom(b1, Tail(dom))

NoBrowser == [fileUrls |-> 0, blobUrls |-> 0, anchors |-> 0]

(***************************************************************************)
(* Remote exchanges.  A response is a transport failure or an HTTP         *)
(* response: status, content type, and a body that may or may not parse as *)
(* JSON; a parsed body has the fields the callers read.                    *)
(***************************************************************************)
Body(parsable, success, description, error, message, id) ==
    [parsable |-> parsable, success |-> success, description |-> description,
     error |-> error, message |-> message, id |-> id]

NoBody == Body(FALSE, FALSE, "", "", "", "")

Response(kind, status, contentType, body) ==
    [kind |-> kind, status |-> status, contentType |-> contentType, body |-> body]

NoResponse == Response("none", 0, "", NoBody)

NetworkError == Response("network", 0, "", NoBody)

MsgFailedToFetch == "Failed to fetch"
MsgJsonSyntax == "Unexpected token < in JSON"

Json(status, body) == Response("http", status, "application/json", body)

ErrorJson(status) == Json(status, Body(TRUE, FALSE, "", "", "error", ""))

Html(status) == Response("http", status, "text/html", NoBody)

Zip(status) == Response("http", status, "application/zip", NoBody)

ok(resp) == resp.kind = "http" /\ resp.status >= 200 /\ resp.status <= 299

AnalyzeResponses ==
    {NetworkError, ErrorJson(401), ErrorJson(500), Html(200),
     Json(201, Body(TRUE, TRUE, "D", "", "", "")),
     Json(201, Body(TRUE, TRUE, "", "", "", "")),
     Json(201, Body(TRUE, FALSE, "", "X", "", "")),
     Json(201, Body(TRUE, FALSE, "", "", "", ""))}

CreateResponses ==
    {NetworkError, ErrorJson(400), ErrorJson(401), ErrorJson(500),
     Json(201, Body(TRUE, FALSE, "", "", "", "app1"))}

GenerateResponses ==
    {NetworkError, ErrorJson(401), ErrorJson(500), Zip(201), Html(200),
     Json(200, Body(TRUE, FALSE, "", "", "M", "")),
     Json(200, Body(TRUE, FALSE, "", "", "", ""))}

(***************************************************************************)
(* imageAnalysisService: the fetch-based client.  Each function is given   *)
(* by what it makes of the response to the request it awaits.              *)
(***************************************************************************)
MsgUnknownError == "Error desconocido"
MsgAnalyzing == "Error analizando imagen"
MsgGenerating == "Error generando proyecto"

Result(success, downloadUrl, error) ==
    [success |-> success, downloadUrl |-> downloadUrl, error |-> error]

\* What the promise of analyzeImageForProject settles to: a returned
\* ImageAnalysisResponse, or (rejected) a thrown error with its message.
AnalysisResponse(rejected, success, description, error) ==
    [rejected |-> rejected, success |-> success, description |-> description,
     error |-> error]

\* A variant without the try/catch around the exchange: what the fetch, the
\* status check or the parsing throws is thrown on.
analyzeImageForProjectUncaught(resp) ==
    IF resp.kind = "network"
    THEN AnalysisResponse(TRUE, FALSE, "", MsgFailedToFetch)
    ELSE IF ~ok(resp)
    THEN AnalysisResponse(TRUE, FALSE, "",
                          "Error del servidor: " \o ToString(resp.status))
    ELSE IF ~resp.body.parsable
    THEN AnalysisResponse(TRUE, FALSE, "", MsgJsonSyntax)
    ELSE AnalysisResponse(FALSE, resp.body.success, resp.body.description,
                          resp.body.error)

\* analyzeImageForProject after its fetch of /mobile-generator/analyze-image:
\* everything thrown inside is caught and returned as a failure.
analyzeImageForProject(resp) ==
    IF resp.kind = "network"
    THEN AnalysisResponse(FALSE, FALSE, "", MsgFailedToFetch)
    ELSE IF ~ok(resp)
    THEN AnalysisResponse(FALSE, FALSE, "",
                          "Error del servidor: " \o ToString(resp.status))
    ELSE IF ~resp.body.parsable
    THEN AnalysisResponse(FALSE, FALSE, "", MsgJsonSyntax)
    ELSE AnalysisResponse(FALSE, resp.body.success, resp.body.description,
                          resp.body.error)

\* A variant that lets a success without a description through.
analysisFailedOnlyUnsuccessful(analysisResult) == ~analysisResult.success

\* analyzeImageAndGenerateProject after step 1: go on to step 2, or return.
analysisFailed(analysisResult) ==
    ~analysisResult.success \/ analysisResult.description = ""

analysisFailure(analysisResult) ==
    Result(FALSE, "", Or(analysisResult.error, MsgAnalyzing))

\* A variant that does not look at the status of the create response.
createFailedIgnoringStatus(resp) == resp.kind = "network" \/ ~resp.body.parsable

\* generateProjectFromDescription after its fetch of /mobile-generator/from-prompt:
\* the failure it returns, or none (success TRUE here means "go on").
createFailed(resp) == resp.kind = "network" \/ ~ok(resp) \/ ~resp.body.parsable

createFailure(resp) ==
    IF resp.kind = "network" THEN Result(FALSE, "", MsgFailedToFetch)
    ELSE IF ~ok(resp)
    THEN Result(FALSE, "", "Error creando aplicacion: " \o ToString(resp.status))
    ELSE Result(FALSE, "", MsgJsonSyntax)

isZip(resp) == resp.contentType = "application/zip"

\* generateProjectFromDescription after its fetch of /mobile-generator/{id}/generate.
generateResult(resp) ==
    IF resp.kind = "network" THEN Result(FALSE, "", MsgFailedToFetch)
    ELSE IF ~ok(resp)
    THEN Result(FALSE, "", "Error generando proyecto: " \o ToString(resp.status))
    ELSE IF isZip(resp) THEN Result(TRUE, "blob:zip", "")
    ELSE IF ~resp.body.parsable THEN Result(FALSE, "", MsgJsonSyntax)
    ELSE Result(FALSE, "", Or(resp.body.message, MsgGenerating))

(***************************************************************************)
(* MobileAppFromImagePage                                                  *)
(***************************************************************************)
ImagePath == "/mobile-app-from-image"
PromptPath == "/mobile-app-from-prompt"
LoginPath == "/login"

\* Text typed into an input: a sequence of characters.
trim(text) ==
    LET keep == {i \in 1..Len(text) : text[i] # " "} IN
    IF keep = {} THEN <<>>
    ELSE SubSeq(text, CHOOSE i \in keep : \A j \in keep : i <= j,
                      CHOOSE i \in keep : \A j \in keep : i >= j)

ProjectNames == {<<" ">>, <<"a">>}
ProjectTypes == {"flutter", "angular"}

NoInfo == [sizeKB |-> 0, format |-> EmptyStr]

MsgInvalidFile == "Archivo no valido"
MsgSelectImage == "Por favor selecciona una imagen"
MsgEnterName == "Por favor ingresa un nombre para el proyecto"
MsgAnalyzed == "Imagen analizada correctamente"
MsgGenerated(projectType) == "Proyecto " \o projectType \o " generado y descargado"
MsgLoaded(info) == "Imagen cargada y comprimida: " \o ToString(info.sizeKB) \o " KB"
MsgProcessing(message) == "Error procesando imagen: " \o message

FormData(projectName, projectType, imageFile) ==
    [projectName |-> projectName, projectType |-> projectType,
     imageFile |-> imageFile]

ImageIdle ==
    [formData |-> FormData(<<>>, "flutter", NoFile),
     isAnalyzing |-> FALSE, isGenerating |-> FALSE, analysisResult |-> "",
     error |-> "", success |-> "", imagePreview |-> EmptyStr,
     imageInfo |-> NoInfo, isCompressing |-> FALSE]

\* A handler call: where it is suspended (pc), the formData of the render it
\* was started from (what the rest of the call reads of it, while it runs),
\* the requests it has sent and the responses it has got, how it ended, and
\* the download it triggered (dom calls, file name).  The record of a call
\* stays until the next call of the handler.
Call(pc, formData, reqs, resps, ended, dom, download) ==
    [pc |-> pc, formData |-> formData, reqs |-> reqs, resps |-> resps,
     ended |-> ended, dom |-> dom, download |-> download]

NoDownload == [name |-> <<>>, projectType |-> ""]

NoCall == Call("idle", FormData(<<>>, "flutter", NoFile), <<>>, <<>>, "", <<>>, NoDownload)

\* The files offered to the file input.
GoodPng == File("image/png", 1000, TRUE, 5000, 3000, 9000)
CorruptJpeg == File("image/jpeg", 1000, FALSE, 0, 0, 0)
Pdf == File("application/pdf", 1000, FALSE, 0, 0, 0)
HugePng == File("image/png", maxSize + 1, TRUE, 5000, 3000, 9000)

ImageFiles == {GoodPng, CorruptJpeg, Pdf, HugePng}

ImageActive == location = ImagePath

ImageFrame ==
    UNCHANGED <<args, ret, localStorage, location, prompt, hSubmit, appsPage,
                hGenerateApp, manager>>

\* handleInputChange: the project name or the project type is edited.
handleInputChange(name, value) ==
    /\ ImageActive
    /\ image' = [image EXCEPT !.formData[name] = value]
    /\ UNCHANGED <<browser, hImageChange, hAnalyze, hGenerate>>
    /\ ImageFrame

\* A variant that stores the file before it validates it.
handleImageChangeStored(file) ==
    /\ ImageActive /\ ~image.isCompressing
    /\ LET validation == validateImageFile(file) IN
       IF ~validation.valid
       THEN /\ image' = [image EXCEPT !.error = Or(validation.error, MsgInvalidFile),
                                      !.formData.imageFile = file]
            /\ UNCHANGED <<browser, hImageChange>>
       ELSE /\ image' = [image EXCEPT !.isCompressing = TRUE, !.error = "",
                                      !.formData.imageFile = file]
            /\ hImageChange' = [NoCall EXCEPT !.pc = "fileToBase64",
                                              !.formData.imageFile = file]
            /\ browser' = createFileUrl(browser, file, TRUE)
    /\ UNCHANGED <<hAnalyze, hGenerate>>
    /\ ImageFrame

\* handleImageChange up to its await; the file input is disabled while
\* isCompressing.
handleImageChange(file) ==
    /\ ImageActive /\ ~image.isCompressing
    /\ LET validation == validateImageFile(file) IN
       IF ~validation.valid
       THEN /\ image' = [image EXCEPT !.error = Or(validation.error, MsgInvalidFile)]
            /\ UNCHANGED <<browser, hImageChange>>
       ELSE /\ image' = [image EXCEPT !.isCompressing = TRUE, !.error = "",
                                      !.formData.imageFile = file]
            /\ hImageChange' = [NoCall EXCEPT !.pc = "fileToBase64",
                                              !.formData.imageFile = file]
            /\ browser' = createFileUrl(browser, file, TRUE)
    /\ UNCHANGED <<hAnalyze, hGenerate>>
    /\ ImageFrame

\* handleImageChange from the settling of fileToBase64 to its end.
handleImageChangeResume ==
    /\ hImageChange.pc = "fileToBase64"
    /\ LET r == fileToBase64(hImageChange.formData.imageFile, TRUE)
           info == getImageInfo(r.dataUrl)
       IN  IF r.ok
           THEN image' = [image EXCEPT !.imagePreview = r.dataUrl,
                                       !.imageInfo = info,
                                       !.success = MsgLoaded(info),
                                       !.isCompressing = FALSE]
           ELSE image' = [image EXCEPT !.error = MsgProcessing(r.error),
                                       !.isCompressing = FALSE]
    /\ hImageChange' = NoCall
    /\ UNCHANGED <<browser, hAnalyze, hGenerate>>
    /\ ImageFrame

\* clearImage: its button is rendered with the preview.
clearImage ==
    /\ ImageActive /\ image.imagePreview # EmptyStr
    /\ image' = [image EXCEPT !.formData.imageFile = NoFile,
                              !.imagePreview = EmptyStr, !.imageInfo = NoInfo,
                              !.analysisResult = "", !.error = "", !.success = ""]
    /\ UNCHANGED <<browser, hImageChange, hAnalyze, hGenerate>>
    /\ ImageFrame

\* The disabled attribute of the "Analizar Imagen" button.
analyzeDisabled ==
    image.formData.imageFile = NoFile \/ image.isAnalyzing \/ image.isCompressing

\* The disabled attribute of the "Generar Proyecto" button.
generateDisabled ==
    \/ image.formData.imageFile = NoFile
    \/ trim(image.formData.projectName) = <<>>
    \/ image.isGenerating \/ image.isCompressing

\* handleAnalyzeImage up to its first await, on a click of its button.
handleAnalyzeImage ==
    /\ ImageActive /\ ~analyzeDisabled
    /\ IF image.formData.imageFile = NoFile
       THEN /\ image' = [image EXCEPT !.error = MsgSelectImage]
            /\ hAnalyze' = [NoCall EXCEPT !.ended = "validation"]
            /\ UNCHANGED browser
       ELSE /\ image' = [image EXCEPT !.isAnalyzing = TRUE, !.error = "",
                                      !.analysisResult = ""]
            /\ hAnalyze' = [NoCall EXCEPT
                   !.pc = "fileToBase64",
                   !.formData.imageFile = image.formData.imageFile]
            /\ browser' = createFileUrl(browser, image.formData.imageFile, TRUE)
    /\ UNCHANGED <<hImageChange, hGenerate>>
    /\ ImageFrame

\* fileToBase64 settles: the analyze request is sent, or the catch runs.
handleAnalyzeImageCompressed ==
    /\ hAnalyze.pc = "fileToBase64"
    /\ LET r == fileToBase64(hAnalyze.formData.imageFile, TRUE) IN
       IF r.ok
       THEN /\ hAnalyze' = [hAnalyze EXCEPT !.pc = "analyze",
                                            !.reqs = Append(@, "analyze")]
            /\ UNCHANGED image
       ELSE /\ hAnalyze' = [NoCall EXCEPT !.ended = "fileToBase64"]
            /\ image' = [image EXCEPT !.error = r.error, !.isAnalyzing = FALSE]
    /\ UNCHANGED <<browser, hImageChange, hGenerate>>
    /\ ImageFrame

\* The analyze exchange ends: the rest of handleAnalyzeImage.
handleAnalyzeImageResume(resp) ==
    /\ hAnalyze.pc = "analyze"
    /\ LET result == analyzeImageForProject(resp) IN
       /\ image' = IF result.rejected
                   THEN [image EXCEPT !.error = result.error,
                                      !.isAnalyzing = FALSE]
                   ELSE IF result.success /\ result.description # ""
                   THEN [image EXCEPT !.analysisResult = result.description,
                                      !.success = MsgAnalyzed,
                                      !.isAnalyzing = FALSE]
                   ELSE [image EXCEPT !.error = Or(result.error, MsgAnalyzing),
                                      !.isAnalyzing = FALSE]
       /\ hAnalyze' = [hAnalyze EXCEPT
              !.pc = "idle", !.resps = Append(@, resp),
              !.formData = NoCall.formData,
              !.ended = IF result.rejected THEN "catch"
                        ELSE IF result.success /\ result.description # ""
                        THEN "done" ELSE "analyze"]
    /\ UNCHANGED <<browser, hImageChange, hGenerate>>
    /\ ImageFrame

\* handleGenerateProject up to its first await, on a click of its button.
handleGenerateProject ==
    /\ ImageActive /\ ~generateDisabled
    /\ IF image.formData.imageFile = NoFile
       THEN /\ image' = [image EXCEPT !.error = MsgSelectImage]
            /\ hGenerate' = [NoCall EXCEPT !.ended = "validation"]
            /\ UNCHANGED browser
       ELSE IF trim(image.formData.projectName) = <<>>
       THEN /\ image' = [image EXCEPT !.error = MsgEnterName]
            /\ hGenerate' = [NoCall EXCEPT !.ended = "validation"]
            /\ UNCHANGED browser
       ELSE /\ image' = [image EXCEPT !.isGenerating = TRUE, !.error = "",
                                      !.success = ""]
            /\ hGenerate' = [NoCall EXCEPT !.pc = "fileToBase64",
                                           !.formData = image.formData]
            /\ browser' = createFileUrl(browser, image.formData.imageFile, TRUE)
    /\ UNCHANGED <<hImageChange, hAnalyze>>
    /\ ImageFrame

\* A variant that sends a failed request again instead of ending the call.
generateFailedResend(step, resp, message) ==
    /\ image' = [image EXCEPT !.error = message]
    /\ hGenerate' = [hGenerate EXCEPT
           !.reqs = IF resp = NoResponse THEN @ ELSE Append(@, step),
           !.resps = IF resp = NoResponse THEN @ ELSE Append(@, resp)]
    /\ UNCHANGED browser

\* The end of handleGenerateProject on a result without a download: the else
\* branch (or the catch) and the finally.
generateFailed(step, resp, message) ==
    /\ image' = [image EXCEPT !.error = message, !.isGenerating = FALSE]
    /\ hGenerate' = [hGenerate EXCEPT
           !.pc = "idle", !.ended = step, !.formData = NoCall.formData,
           !.resps = IF resp = NoResponse THEN @ ELSE Append(@, resp)]
    /\ UNCHANGED browser

\* fileToBase64 settles: analyzeImageAndGenerateProject sends the analyze
\* request, or the catch runs.
handleGenerateProjectCompressed ==
    /\ hGenerate.pc = "fileToBase64"
    /\ LET r == fileToBase64(hGenerate.formData.imageFile, TRUE) IN
       IF r.ok
       THEN /\ hGenerate' = [hGenerate EXCEPT !.pc = "analyze",
                                              !.reqs = Append(@, "analyze")]
            /\ UNCHANGED <<image, browser>>
       ELSE generateFailed("fileToBase64", NoResponse, r.error)
    /\ UNCHANGED <<hImageChange, hAnalyze>>
    /\ ImageFrame

\* The analyze exchange ends: generateProjectFromDescription sends the create
\* request, or the failure is returned and shown.
handleGenerateProjectAnalyzed(resp) ==
    /\ hGenerate.pc = "analyze"
    /\ LET analysisResult == analyzeImageForProject(resp) IN
       IF analysisFailed(analysisResult)
       THEN generateFailed("analyze", resp,
                           Or(analysisFailure(analysisResult).error, MsgGenerating))
       ELSE /\ hGenerate' = [hGenerate EXCEPT !.pc = "create",
                                              !.reqs = Append(@, "create"),
                                              !.resps = Append(@, resp)]
            /\ UNCHANGED <<image, browser>>
    /\ UNCHANGED <<hImageChange, hAnalyze>>
    /\ ImageFrame

\* The create exchange ends: the generate request is sent, or the failure is
\* returned and shown.
handleGenerateProjectCreated(resp) ==
    /\ hGenerate.pc = "create"
    /\ IF createFailed(resp)
       THEN generateFailed("create", resp, Or(createFailure(resp).error, MsgGenerating))
       ELSE /\ hGenerate' = [hGenerate EXCEPT !.pc = "generate",
                                              !.reqs = Append(@, "generate"),
                                              !.resps = Append(@, resp)]
            /\ UNCHANGED <<image, browser>>
    /\ UNCHANGED <<hImageChange, hAnalyze>>
    /\ ImageFrame

\* The browser calls of the download in handleGenerateProject, after the
\* createObjectURL of generateProjectFromDescription.
ImageDownloadDom ==
    <<"createObjectURL", "createElement", "appendChild", "click",
      "removeChild", "revokeObjectURL">>

\* The generate exchange ends: the archive is downloaded and the form reset,
\* or the failure is shown.
handleGenerateProjectGenerated(resp) ==
    /\ hGenerate.pc = "generate"
    /\ LET result == generateResult(resp) IN
       IF result.success /\ result.downloadUrl # ""
       THEN /\ browser' = applyDom(browser, ImageDownloadDom)
            /\ hGenerate' = [hGenerate EXCEPT
                   !.pc = "idle", !.ended = "done", !.resps = Append(@, resp),
                   !.formData = NoCall.formData,
                   !.dom = ImageDownloadDom,
                   !.download = [name |-> hGenerate.formData.projectName,
                                 projectType |-> hGenerate.formData.projectType]]
            /\ image' = [image EXCEPT
                   !.success = MsgGenerated(hGenerate.formData.projectType),
                   !.formData = FormData(<<>>, "flutter", NoFile),
                   !.imagePreview = EmptyStr, !.imageInfo = NoInfo,
                   !.analysisResult = "", !.isGenerating = FALSE]
       ELSE generateFailed("generate", resp, Or(result.error, MsgGenerating))
    /\ UNCHANGED <<hImageChange, hAnalyze>>
    /\ ImageFrame

(***************************************************************************)
(* apiService: the axios client `api`, its interceptors, authApi and       *)
(* mobileAppsApi.                                                          *)
(***************************************************************************)
\* A variant that removes the token only.
logoutToken(storage) == [storage EXCEPT !.token = ""]

\* authApi.logout
logout(storage) == [storage EXCEPT !.token = "", !.user = ""]

\* handleUnauthorized: [localStorage, location] afterwards.
handleUnauthorized(storage, pathname) ==
    IF pathname # LoginPath
    THEN [localStorage |-> logout(storage), location |-> LoginPath]
    ELSE [localStorage |-> storage, location |-> pathname]

\* The response interceptor's error branch: handleUnauthorized on a 401; the
\* error is rejected onwards in every case.
interceptError(resp, storage, pathname) ==
    IF resp.kind = "http" /\ resp.status = 401
    THEN handleUnauthorized(storage, pathname)
    ELSE [localStorage |-> storage, location |-> pathname]

\* authApi.getCurrentUser: the cached user is absent (""), parses to a user
\* with an id ("valid") or without one ("noid"), or does not parse
\* ("garbage"), and is then removed.
getCurrentUser(storage) ==
    IF storage.user = "" THEN [user |-> "", localStorage |-> storage]
    ELSE IF storage.user = "garbage"
    THEN [user |-> "", localStorage |-> [storage EXCEPT !.user = ""]]
    ELSE [user |-> storage.user, localStorage |-> storage]

\* !user || !user.id
noUserId(user) == user = "" \/ user = "noid"

\* An axios call settles: the promise resolves on a 2xx status and rejects
\* otherwise; a rejection carries error.response unless no response came.
resolves(resp) == ok(resp)

\* error.response?.status of a rejection; 0 when there is no response.
errorStatus(resp) == IF resp.kind = "http" THEN resp.status ELSE 0

\* The id of the cached user that has one.
UserId(user) == "u1"

\* A request body: the record of the fields it holds.
\* mobileAppsApi.create: { ...mobileApp, user_id: user.id }.
createBody(mobileApp, user) == [user_id |-> UserId(user)] @@ mobileApp

\* mobileAppsApi.createFromXml: { xml, project_type: projectType }.
createFromXmlBody(xml, projectType) == [xml |-> xml, project_type |-> projectType]

\* mobileAppsApi.createFromMockup: { mockup_id: mockupId, project_type: projectType }.
createFromMockupBody(mockupId, projectType) ==
    [mockup_id |-> mockupId, project_type |-> projectType]

\* What the three functions have in common: the cached user is read, and
\* the body is posted to /mobile-generator unless there is no user id.
postMobileGenerator(kind, body) ==
    /\ args.kind = kind /\ ret.applied = "none"
    /\ LET current == getCurrentUser(localStorage) IN
       /\ localStorage' = current.localStorage
       /\ ret' = [ret EXCEPT
              !.applied = kind,
              !.posted = IF noUserId(current.user)
                         THEN [sent |-> FALSE, body |-> <<>>]
                         ELSE [sent |-> TRUE, body |-> body]]

ApplyCreate ==
    postMobileGenerator("create",
        createBody(args.request, getCurrentUser(localStorage).user))

ApplyCreateFromXml ==
    postMobileGenerator("createFromXml",
        createFromXmlBody(args.request.xml, args.request.projectType))

ApplyCreateFromMockup ==
    postMobileGenerator("createFromMockup",
        createFromMockupBody(args.request.mockupId, args.request.projectType))

\* The calls made: handleCreate of MobileAppManager passes its form (name and
\* description both filled in); generateFlutterFromXml and
\* generateAngularFromXml pass an xml and their kind; createFromMockup takes
\* a mockup id and a kind.
ApiKinds == {"create", "createFromXml", "createFromMockup"}

ApiInputs ==
    {[kind |-> "create",
      request |-> [nombre |-> n, prompt |-> p, project_type |-> t]] :
        n \in {"shop", "notes"}, p \in {"a shop app", "a notes app"},
        t \in ProjectTypes}
    \cup
    {[kind |-> "createFromXml", request |-> [xml |-> x, projectType |-> t]] :
        x \in {"<mxfile/>", ""}, t \in ProjectTypes}
    \cup
    {[kind |-> "createFromMockup", request |-> [mockupId |-> i, projectType |-> t]] :
        i \in {"m1", "m2"}, t \in ProjectTypes}

(***************************************************************************)
(* MobileAppFromPromptPage                                                 *)
(***************************************************************************)
MsgRequired == "La descripcion de la aplicacion es requerida"
MsgTooShort == "La descripcion debe tener al menos 10 caracteres"
MsgVerify == "Verifica que la descripcion sea valida"
MsgServer == "Error interno del servidor. Intenta mas tarde."
MsgCreating == "Error creando la aplicacion. Intenta con una descripcion mas especifica."

MinPromptLength == 10

MaxPad == 1     \* spaces before and after the text of a typed prompt

RECURSIVE Repeat(_, _)
Repeat(c, n) == IF n = 0 THEN <<>> ELSE <<c>> \o Repeat(c, n - 1)

\* The prompts typed: l spaces, c letters, t spaces, with no letters or with
\* so many that the length is near the least one accepted.
Prompts ==
    {Repeat(" ", l) \o Repeat("a", c) \o Repeat(" ", t) :
        l \in 0..MaxPad,
        c \in {0} \cup ((MinPromptLength - 2 * MaxPad)..(MinPromptLength + 1)),
        t \in 0..MaxPad}

\* ejemplosPrompts: "crea una app de gimnasio y fitness" and the like, by length.
ejemplosPrompts == {Repeat("a", 34)}

Nombres == {<<>>, <<"n">>}

\* A variant that rejects only a prompt that is blank.
submitErrorRequired(formData) ==
    IF trim(formData.prompt) = <<>> THEN MsgRequired ELSE ""

\* The first two checks of handleSubmit: "" when the submission goes on.
submitError(formData) ==
    IF trim(formData.prompt) = <<>> THEN MsgRequired
    ELSE IF Len(formData.prompt) < MinPromptLength THEN MsgTooShort
    ELSE ""

\* A variant that takes a failure without a response for a server error.
catchMessageNoResponse(status) ==
    IF status = 400 THEN MsgVerify
    ELSE IF status = 500 \/ status = 0 THEN MsgServer
    ELSE MsgCreating

\* A variant that takes every 4xx status for a precondition violation.
catchMessageClientError(status) ==
    IF status >= 400 /\ status < 500 THEN MsgVerify
    ELSE IF status = 500 THEN MsgServer
    ELSE MsgCreating

\* The message the catch of handleSubmit chooses.
catchMessage(status) ==
    IF status = 400 THEN MsgVerify
    ELSE IF status = 500 THEN MsgServer
    ELSE MsgCreating

PromptActive == location = PromptPath /\ ~prompt.success

PromptFrame ==
    UNCHANGED <<args, ret, image, hImageChange, hAnalyze, hGenerate, appsPage,
                hGenerateApp, manager>>

\* The onChange of the textarea, the name input and the project type
\* buttons, and handleExampleClick.
setFormData(name, value) ==
    /\ PromptActive
    /\ prompt' = [prompt EXCEPT !.formData[name] = value]
    /\ UNCHANGED <<localStorage, location, browser, hSubmit>>
    /\ PromptFrame

\* The app record the server answers createFromPrompt with: the name sent, or
\* one it makes up.
AppRecord(id, nombre, project_type) ==
    [id |-> id, nombre |-> nombre, project_type |-> project_type]

NoApp == AppRecord("", <<>>, "")

SubmitCall(pc, formData, app, reqs, resps, ended, dom, download, timer) ==
    [pc |-> pc, formData |-> formData, app |-> app, reqs |-> reqs,
     resps |-> resps, ended |-> ended, dom |-> dom, download |-> download,
     timer |-> timer]

NoSubmit ==
    SubmitCall("idle", [prompt |-> <<>>, nombre |-> <<>>, project_type |-> "flutter"],
               NoApp, <<>>, <<>>, "", <<>>, NoDownload, FALSE)

PromptIdle ==
    [formData |-> [prompt |-> <<>>, nombre |-> <<>>, project_type |-> "flutter"],
     loading |-> FALSE, error |-> "", success |-> FALSE]

HomePath == "/"

\* A state update of the prompt screen takes effect while it is mounted.
setPrompt(new) == prompt' = IF location = PromptPath THEN new ELSE prompt

\* The disabled attribute of the submit button.
submitDisabled == prompt.loading \/ trim(prompt.formData.prompt) = <<>>

\* handleSubmit up to its first await, createFromPrompt included up to its
\* api.post, on a submit of the form through its button.  (The textarea's
\* minLength attribute is left to the browser: whether it holds a submit
\* back depends on how the value was last entered.)
handleSubmit ==
    /\ PromptActive /\ ~submitDisabled
    /\ IF submitError(prompt.formData) # ""
       THEN /\ prompt' = [prompt EXCEPT !.error = submitError(prompt.formData)]
            /\ hSubmit' = [NoSubmit EXCEPT !.ended = "validation"]
            /\ UNCHANGED localStorage
       ELSE LET current == getCurrentUser(localStorage) IN
            /\ localStorage' = current.localStorage
            /\ IF noUserId(current.user)
               THEN /\ prompt' = [prompt EXCEPT !.loading = FALSE,
                                                !.error = catchMessage(0)]
                    /\ hSubmit' = [NoSubmit EXCEPT !.ended = "identity"]
               ELSE /\ prompt' = [prompt EXCEPT !.loading = TRUE, !.error = ""]
                    /\ hSubmit' = [NoSubmit EXCEPT !.pc = "create",
                                                   !.formData = prompt.formData,
                                                   !.reqs = <<"create">>]
    /\ UNCHANGED <<location, browser>>
    /\ PromptFrame

\* A variant whose finally does not run.
submitRejectedLoading(step, resp) ==
    LET after == interceptError(resp, localStorage, location) IN
    /\ localStorage' = after.localStorage
    /\ location' = after.location
    /\ setPrompt([prompt EXCEPT !.error = catchMessage(errorStatus(resp))])
    /\ hSubmit' = [hSubmit EXCEPT !.pc = "idle", !.ended = step,
                                  !.resps = Append(@, resp),
                                  !.formData = NoSubmit.formData]
    /\ UNCHANGED browser

\* The end of handleSubmit on a rejected call: the response interceptor, the
\* catch and the finally.
submitRejected(step, resp) ==
    LET after == interceptError(resp, localStorage, location) IN
    /\ localStorage' = after.localStorage
    /\ location' = after.location
    /\ setPrompt([prompt EXCEPT !.error = catchMessage(errorStatus(resp)),
                                !.loading = FALSE])
    /\ hSubmit' = [hSubmit EXCEPT !.pc = "idle", !.ended = step,
                                  !.resps = Append(@, resp),
                                  !.formData = NoSubmit.formData]
    /\ UNCHANGED browser

\* Names the server may make up for an app created without one.
GeneratedNames == {<<>>, <<"g">>}

\* The createFromPrompt exchange ends: generateProject is called, or the
\* rejection is handled.
handleSubmitCreated(resp, generated) ==
    /\ hSubmit.pc = "create"
    /\ IF resolves(resp)
       THEN /\ hSubmit' = [hSubmit EXCEPT
                   !.pc = "generate", !.reqs = Append(@, "generate"),
                   !.resps = Append(@, resp),
                   !.app = AppRecord(resp.body.id,
                               IF hSubmit.formData.nombre # <<>>
                               THEN hSubmit.formData.nombre ELSE generated,
                               hSubmit.formData.project_type)]
            /\ UNCHANGED <<localStorage, location, browser, prompt>>
       ELSE submitRejected("create", resp)
    /\ PromptFrame

DefaultAppName == <<"m", "o", "b", "i", "l", "e", "-", "a", "p", "p">>

\* A variant without the fallback for a record that has no name.
downloadOfRecord(app) == [name |-> app.nombre, projectType |-> app.project_type]

\* a.download in handleSubmit, `${app.nombre || 'mobile-app'}-${app.project_type}.zip`,
\* by the two parts the template joins.
downloadOf(app) ==
    [name |-> IF app.nombre # <<>> THEN app.nombre ELSE DefaultAppName,
     projectType |-> app.project_type]

\* The browser calls of the download in handleSubmit.
PromptDownloadDom ==
    <<"createObjectURL", "createElement", "appendChild", "click",
      "revokeObjectURL", "removeChild">>

\* The generateProject exchange ends: whatever blob a 2xx response carries is
\* downloaded, or the rejection is handled.
handleSubmitGenerated(resp) ==
    /\ hSubmit.pc = "generate"
    /\ IF resolves(resp)
       THEN /\ browser' = applyDom(browser, PromptDownloadDom)
            /\ hSubmit' = [hSubmit EXCEPT
                   !.pc = "idle", !.ended = "done", !.resps = Append(@, resp),
                   !.formData = NoSubmit.formData,
                   !.dom = PromptDownloadDom,
                   !.download = downloadOf(hSubmit.app),
                   !.timer = TRUE]
            /\ setPrompt([prompt EXCEPT !.success = TRUE, !.loading = FALSE])
            /\ UNCHANGED <<localStorage, location>>
       ELSE submitRejected("generate", resp)
    /\ PromptFrame

\* The setTimeout of handleSubmit fires: navigate('/').
navigateAfterSuccess ==
    /\ hSubmit.timer
    /\ hSubmit' = [hSubmit EXCEPT !.timer = FALSE]
    /\ location' = IF location = PromptPath THEN HomePath ELSE location
    /\ UNCHANGED <<localStorage, browser, prompt>>
    /\ PromptFrame

\* handleGoBack: navigate('/'); a call in flight is left to run.
handleGoBack ==
    /\ PromptActive
    /\ location' = HomePath
    /\ UNCHANGED <<localStorage, browser, prompt, hSubmit>>
    /\ PromptFrame

\* What the axios calls of the prompt screen may be answered with.
ApiCreateResponses ==
    {NetworkError, ErrorJson(400), ErrorJson(401), ErrorJson(500),
     Json(201, Body(TRUE, FALSE, "", "", "", "app1"))}

ApiGenerateResponses ==
    {NetworkError, ErrorJson(400), ErrorJson(401), ErrorJson(500), Zip(201),
     Json(200, Body(TRUE, FALSE, "", "", "M", ""))}

Session(token, user) == [token |-> token, user |-> user]

(***************************************************************************)
(* MobileAppsPage: the generate button of an app of the list.              *)
(***************************************************************************)
ListPath == "/mobile-apps"

\* The apps listed.
MobileApps ==
    {AppRecord("a1", <<"n">>, "flutter"), AppRecord("a2", <<"m">>, "angular")}

AppIds == {app.id : app \in MobileApps}

\* generatingId is null ("") and there is no error.
AppsIdle == [generatingId |-> "", error |-> <<>>]

\* The handleGenerate calls of one app: how many are waiting for
\* generateProject, and of the call that ended last, what it was answered,
\* how it ended and the download it triggered.
NoGeneration ==
    [pending |-> 0, resps |-> <<>>, ended |-> "", dom |-> <<>>,
     download |-> NoDownload]

NoGenerations == [id \in AppIds |-> NoGeneration]

\* The calls of one app that the model lets wait at the same time.
MaxPending == 2

ListFrame ==
    UNCHANGED <<args, ret, image, hImageChange, hAnalyze, hGenerate, prompt,
                hSubmit, manager>>

\* A state update of the page takes effect while it is mounted.
setApps(new) == appsPage' = IF location = ListPath THEN new ELSE appsPage

\* The disabled attribute of the generate button of an app.
generateButtonDisabled(app) == appsPage.generatingId = app.id

\* handleGenerate up to its await.
handleGenerate(app) ==
    /\ location = ListPath /\ ~generateButtonDisabled(app)
    /\ hGenerateApp[app.id].pending < MaxPending
    /\ appsPage' = [appsPage EXCEPT !.generatingId = app.id]
    /\ hGenerateApp' = [hGenerateApp EXCEPT ![app.id].pending = @ + 1]
    /\ UNCHANGED <<localStorage, location, browser>>
    /\ ListFrame

\* `Error generando proyecto ${app.project_type}`, by its two parts.
MsgGeneratingApp(project_type) == <<"Error generando proyecto", project_type>>

\* A variant that never revokes the object URL.
ListDownloadDomUnrevoked ==
    <<"createObjectURL", "createElement", "appendChild", "click", "removeChild">>

\* The browser calls of the download in handleGenerate.
ListDownloadDom ==
    <<"createObjectURL", "createElement", "appendChild", "click",
      "revokeObjectURL", "removeChild">>

\* The generateProject exchange of a call ends: the blob of a 2xx response is
\* downloaded, or the rejection is caught; generatingId is reset.
handleGenerateSettled(app, resp) ==
    /\ hGenerateApp[app.id].pending > 0
    /\ IF resolves(resp)
       THEN /\ browser' = applyDom(browser, ListDownloadDom)
            /\ hGenerateApp' = [hGenerateApp EXCEPT ![app.id] =
                   [pending |-> @.pending - 1, resps |-> <<resp>>,
                    ended |-> "done", dom |-> ListDownloadDom,
                    download |-> [name |-> app.nombre,
                                  projectType |-> app.project_type]]]
            /\ setApps([appsPage EXCEPT !.generatingId = ""])
            /\ UNCHANGED <<localStorage, location>>
       ELSE LET after == interceptError(resp, localStorage, location) IN
            /\ localStorage' = after.localStorage
            /\ location' = after.location
            /\ hGenerateApp' = [hGenerateApp EXCEPT ![app.id] =
                   [pending |-> @.pending - 1, resps |-> <<resp>>,
                    ended |-> "generate", dom |-> <<>>,
                    download |-> NoDownload]]
            /\ setApps([appsPage EXCEPT
                   !.error = MsgGeneratingApp(app.project_type),
                   !.generatingId = ""])
            /\ UNCHANGED browser
    /\ ListFrame

NextList ==
    \/ \E app \in MobileApps : handleGenerate(app)
    \/ \E app \in MobileApps, resp \in ApiGenerateResponses :
          handleGenerateSettled(app, resp)

(***************************************************************************)
(* MobileAppManager: its list reloads, its create form and its deletes.    *)
(***************************************************************************)

\* Whether the manager is shown, its state, and the calls under way:
\* handleCreate calls waiting for mobileAppsApi.create, handleDelete calls waiting for
\* mobileAppsApi.delete, and loadMobileApps calls waiting for
\* mobileAppsApi.getAll.
NoManager ==
    [mounted |-> FALSE, mobileApps |-> {}, loading |-> TRUE, showCreateForm |-> FALSE, error |-> "",
     formData |-> [nombre |-> "", prompt |-> "", project_type |-> "flutter"],
     create |-> 0, delete |-> 0, getAll |-> 0]

\* The manager is shown, on the home page; a redirect to /login unloads it.
ManagerMounted == manager.mounted /\ location = HomePath

\* The calls the model lets wait at the same time.
MaxInFlight == 3

InFlight == manager.create + manager.delete + manager.getAll

ManagerFrame ==
    UNCHANGED <<args, ret, browser, image, hImageChange, hAnalyze, hGenerate,
                prompt, hSubmit, appsPage, hGenerateApp>>

\* A state update of the manager takes effect while it is mounted.
setManager(new, calls) ==
    manager' = [(IF ManagerMounted THEN new ELSE manager) EXCEPT
                   !.create = calls.create, !.delete = calls.delete,
                   !.getAll = calls.getAll]

MsgRequiredBoth == "Nombre y descripcion son requeridos"
MsgCreatingApp == "Error creando aplicacion movil"
MsgDeletingApp == "Error eliminando aplicacion movil"
MsgLoadingApps == "Error cargando aplicaciones moviles"

\* "Nueva App", "Crear la primera aplicacion" and "Cancelar".
setShowCreateForm(show) ==
    /\ ManagerMounted
    /\ manager' = [manager EXCEPT !.showCreateForm = show]
    /\ UNCHANGED <<localStorage, location>>
    /\ ManagerFrame

\* The onChange of the form's inputs.
setManagerFormData(name, value) ==
    /\ ManagerMounted /\ manager.showCreateForm
    /\ manager' = [manager EXCEPT !.formData[name] = value]
    /\ UNCHANGED <<localStorage, location>>
    /\ ManagerFrame

\* The disabled attribute of the form's submit button.
createDisabled == manager.loading

\* loadMobileApps up to its await: setLoading(true).
loadMobileApps(state) == [state EXCEPT !.loading = TRUE]

\* handleCreate up to its await, mobileAppsApi.create included up to its
\* api.post.
handleCreate ==
    /\ ManagerMounted /\ manager.showCreateForm /\ ~createDisabled
    /\ InFlight < MaxInFlight
    /\ IF manager.formData.nombre = "" \/ manager.formData.prompt = ""
       THEN /\ manager' = [manager EXCEPT !.error = MsgRequiredBoth]
            /\ UNCHANGED localStorage
       ELSE LET current == getCurrentUser(localStorage) IN
            /\ localStorage' = current.localStorage
            /\ manager' = IF noUserId(current.user)
                          THEN [manager EXCEPT !.error = MsgCreatingApp,
                                               !.loading = FALSE]
                          ELSE [manager EXCEPT !.loading = TRUE,
                                               !.create = @ + 1]
    /\ UNCHANGED location
    /\ ManagerFrame

\* The create exchange ends: the form is closed and the list reloaded (the
\* finally of handleCreate then runs with that of loadMobileApps), or the
\* catch and the finally run.
handleCreateSettled(resp) ==
    /\ manager.create > 0
    /\ IF resolves(resp)
       THEN /\ setManager(loadMobileApps([manager EXCEPT
                              !.showCreateForm = FALSE,
                              !.formData = NoManager.formData]),
                          [manager EXCEPT !.create = @ - 1, !.getAll = @ + 1])
            /\ UNCHANGED <<localStorage, location>>
       ELSE LET after == interceptError(resp, localStorage, location) IN
            /\ localStorage' = after.localStorage
            /\ location' = after.location
            /\ setManager([manager EXCEPT !.error = MsgCreatingApp,
                                          !.loading = FALSE],
                          [manager EXCEPT !.create = @ - 1])
    /\ ManagerFrame

\* handleDelete up to its await, the confirm accepted; the apps are rendered
\* when there are any, unless loading without the form.
handleDelete ==
    /\ ManagerMounted /\ ~(manager.loading /\ ~manager.showCreateForm)
    /\ manager.mobileApps # {}
    /\ InFlight < MaxInFlight
    /\ manager' = [manager EXCEPT !.delete = @ + 1]
    /\ UNCHANGED <<localStorage, location>>
    /\ ManagerFrame

\* The delete exchange ends: the list is reloaded, or the catch runs.
handleDeleteSettled(resp) ==
    /\ manager.delete > 0
    /\ IF resolves(resp)
       THEN /\ setManager(loadMobileApps(manager),
                          [manager EXCEPT !.delete = @ - 1, !.getAll = @ + 1])
            /\ UNCHANGED <<localStorage, location>>
       ELSE LET after == interceptError(resp, localStorage, location) IN
            /\ localStorage' = after.localStorage
            /\ location' = after.location
            /\ setManager([manager EXCEPT !.error = MsgDeletingApp],
                          [manager EXCEPT !.delete = @ - 1])
    /\ ManagerFrame

\* The getAll exchange of a loadMobileApps call ends: the list is set or the
\* catch runs, and the finally sets loading to false.
loadMobileAppsSettled(resp) ==
    /\ manager.getAll > 0
    /\ LET after == IF resolves(resp)
                    THEN [localStorage |-> localStorage, location |-> location]
                    ELSE interceptError(resp, localStorage, location)
       IN  /\ localStorage' = after.localStorage
           /\ location' = after.location
           /\ setManager([manager EXCEPT
                             !.mobileApps = IF resolves(resp) THEN AppIds ELSE @,
                             !.error = IF resolves(resp) THEN @ ELSE MsgLoadingApps,
                             !.loading = FALSE],
                         [manager EXCEPT !.getAll = @ - 1])
    /\ ManagerFrame

\* What the manager's calls may be answered with.
ManagerResponses == {NetworkError, ErrorJson(401), ErrorJson(500), Json(200, NoBody)}

(***************************************************************************)
(* authApi and the stored session.                                         *)
(***************************************************************************)

\* JSON.stringify of the usuario of an AuthResponse, as getCurrentUser reads
\* it back: a user with an id, or one without.
JsonStringify(usuario) == IF usuario.id # "" THEN "valid" ELSE "noid"

\* authApi.login and authApi.register on a resolved post: the token and the
\* user of response.data are stored.
login(storage, data) ==
    [storage EXCEPT !.token = data.token, !.user = JsonStringify(data.usuario)]

register(storage, data) ==
    [storage EXCEPT !.token = data.token, !.user = JsonStringify(data.usuario)]

\* authApi.isAuthenticated
isAuthenticated(storage) == storage.token # ""

\* The AuthResponse bodies a login or a register is answered with.
AuthResponses ==
    {[token |-> t, usuario |-> [id |-> i]] : t \in {"t1", "t2", "t3"}, i \in {"u1", ""}}

\* The paths behind ProtectedRoute.
ProtectedPaths == {HomePath, ImagePath, PromptPath, ListPath}

SessionFrame ==
    UNCHANGED <<args, browser, image, hImageChange, hAnalyze, hGenerate, prompt,
                hSubmit, appsPage, hGenerateApp, manager>>

\* A login or a register resolves.
authLogin(data) ==
    /\ location = LoginPath
    /\ localStorage' = login(localStorage, data)
    /\ ret' = [ret EXCEPT !.applied = "login", !.returned = ""]
    /\ UNCHANGED location
    /\ SessionFrame

authRegister(data) ==
    /\ location = LoginPath
    /\ localStorage' = register(localStorage, data)
    /\ ret' = [ret EXCEPT !.applied = "register", !.returned = ""]
    /\ UNCHANGED location
    /\ SessionFrame

\* A call of the axios client is rejected, on any page: the response
\* interceptor runs.
authRejected(resp) ==
    /\ ~resolves(resp)
    /\ LET after == interceptError(resp, localStorage, location) IN
       /\ localStorage' = after.localStorage
       /\ location' = after.location
    /\ ret' = [ret EXCEPT !.applied = "rejected", !.returned = ""]
    /\ SessionFrame

\* handleLogout of Routes.
handleLogout ==
    /\ location \in ProtectedPaths
    /\ localStorage' = logout(localStorage)
    /\ location' = LoginPath
    /\ ret' = [ret EXCEPT !.applied = "logout", !.returned = ""]
    /\ SessionFrame

\* A call of authApi.getCurrentUser, and the user it returns.
callGetCurrentUser ==
    /\ LET current == getCurrentUser(localStorage) IN
       /\ localStorage' = current.localStorage
       /\ ret' = [ret EXCEPT !.applied = "getCurrentUser", !.returned = current.user]
    /\ UNCHANGED location
    /\ SessionFrame

\* A render of ProtectedRoute calls authApi.isAuthenticated.
callIsAuthenticated ==
    /\ ret' = [ret EXCEPT !.applied = "isAuthenticated",
                          !.returned = IF isAuthenticated(localStorage)
                                   THEN "authenticated" ELSE ""]
    /\ UNCHANGED <<localStorage, location>>
    /\ SessionFrame

\* A navigation to a protected path: ProtectedRoute renders it, or
\* redirects to /login.
navigate(path) ==
    /\ location' = IF isAuthenticated(localStorage) THEN path ELSE LoginPath
    /\ ret' = [ret EXCEPT !.applied = "navigate", !.returned = ""]
    /\ UNCHANGED localStorage
    /\ SessionFrame

(***************************************************************************)
(* Spec: the image screen.                                                 *)
(***************************************************************************)
Init ==
    /\ args = NoArgs /\ ret = NoRet
    /\ localStorage = Session("tok", "valid")
    /\ location = ImagePath
    /\ browser = NoBrowser
    /\ image = ImageIdle
    /\ hImageChange = NoCall /\ hAnalyze = NoCall /\ hGenerate = NoCall
    /\ prompt = PromptIdle /\ hSubmit = NoSubmit
    /\ appsPage = AppsIdle /\ hGenerateApp = NoGenerations
    /\ manager = NoManager

Next ==
    \/ \E v \in ProjectNames : handleInputChange("projectName", v)
    \/ \E t \in ProjectTypes : handleInputChange("projectType", t)
    \/ \E file \in ImageFiles : handleImageChange(file)
    \/ handleImageChangeResume
    \/ clearImage
    \/ handleAnalyzeImage
    \/ handleAnalyzeImageCompressed
    \/ \E resp \in AnalyzeResponses : handleAnalyzeImageResume(resp)
    \/ handleGenerateProject
    \/ handleGenerateProjectCompressed
    \/ \E resp \in AnalyzeResponses : handleGenerateProjectAnalyzed(resp)
    \/ \E resp \in CreateResponses : handleGenerateProjectCreated(resp)
    \/ \E resp \in GenerateResponses : handleGenerateProjectGenerated(resp)

Spec == Init /\ [][Next]_vars

(***************************************************************************)
(* SpecCodec                                                               *)
(***************************************************************************)
InitCodec ==
    /\ ret = NoRet
    /\ \/ /\ args \in CodecInputs
          /\ localStorage = Session("tok", "valid")
       \/ /\ args \in ApiInputs
          /\ localStorage \in {Session("tok", u) : u \in {"valid", "noid", "garbage", ""}}
    /\ location = ImagePath
    /\ browser = NoBrowser
    /\ image = ImageIdle
    /\ hImageChange = NoCall /\ hAnalyze = NoCall /\ hGenerate = NoCall
    /\ prompt = PromptIdle /\ hSubmit = NoSubmit
    /\ appsPage = AppsIdle /\ hGenerateApp = NoGenerations
    /\ manager = NoManager

CodecFrame ==
    UNCHANGED <<args, localStorage, location, browser, image, hImageChange,
                hAnalyze, hGenerate, prompt, hSubmit, appsPage, hGenerateApp,
          manager>>

ApiFrame ==
    UNCHANGED <<args, location, browser, image, hImageChange, hAnalyze,
                hGenerate, prompt, hSubmit, appsPage, hGenerateApp, manager>>

NextCodec ==
    \/ ApplyValidateImageFile /\ CodecFrame
    \/ ApplyCompressImage /\ CodecFrame
    \/ ApplyGetImageInfo /\ CodecFrame
    \/ ApplyUpload /\ CodecFrame
    \/ ApplyCreate /\ ApiFrame
    \/ ApplyCreateFromXml /\ ApiFrame
    \/ ApplyCreateFromMockup /\ ApiFrame

SpecCodec == InitCodec /\ [][NextCodec]_vars

(***************************************************************************)
(* SpecManager: MobileAppManager, from its mount.                          *)
(***************************************************************************)
InitManager ==
    /\ args = NoArgs /\ ret = NoRet
    /\ localStorage \in {Session("tok", u) : u \in {"valid", ""}}
    /\ location = HomePath
    /\ browser = NoBrowser
    /\ image = ImageIdle
    /\ hImageChange = NoCall /\ hAnalyze = NoCall /\ hGenerate = NoCall
    /\ prompt = PromptIdle /\ hSubmit = NoSubmit
    /\ appsPage = AppsIdle /\ hGenerateApp = NoGenerations
    /\ manager = [loadMobileApps(NoManager) EXCEPT !.mounted = TRUE, !.getAll = 1]

NextManager ==
    \/ \E show \in BOOLEAN : setShowCreateForm(show)
    \/ \E nombre \in {"", "shop"} : setManagerFormData("nombre", nombre)
    \/ \E p \in {"", "a shop app"} : setManagerFormData("prompt", p)
    \/ handleCreate
    \/ \E resp \in ManagerResponses : handleCreateSettled(resp)
    \/ handleDelete
    \/ \E resp \in ManagerResponses : handleDeleteSettled(resp)
    \/ \E resp \in ManagerResponses : loadMobileAppsSettled(resp)

SpecManager == InitManager /\ [][NextManager]_vars

(***************************************************************************)
(* SpecSession: the stored session, from an empty storage.                 *)
(***************************************************************************)
InitSession ==
    /\ args = NoArgs /\ ret = NoRet
    /\ localStorage = Session("", "")
    /\ location = LoginPath
    /\ browser = NoBrowser
    /\ image = ImageIdle
    /\ hImageChange = NoCall /\ hAnalyze = NoCall /\ hGenerate = NoCall
    /\ prompt = PromptIdle /\ hSubmit = NoSubmit
    /\ appsPage = AppsIdle /\ hGenerateApp = NoGenerations
    /\ manager = NoManager

NextSession ==
    \/ \E data \in AuthResponses : authLogin(data)
    \/ \E data \in AuthResponses : authRegister(data)
    \/ \E resp \in ManagerResponses : authRejected(resp)
    \/ handleLogout
    \/ callGetCurrentUser
    \/ callIsAuthenticated
    \/ \E path \in ProtectedPaths : navigate(path)

SpecSession == InitSession /\ [][NextSession]_vars

(***************************************************************************)
(* SpecPrompt: the prompt screen.                                          *)
(***************************************************************************)
InitPrompt ==
    /\ args = NoArgs /\ ret = NoRet
    /\ localStorage \in {Session("tok", u) : u \in {"valid", "noid", "garbage", ""}}
    /\ location = PromptPath
    /\ browser = NoBrowser
    /\ image = ImageIdle
    /\ hImageChange = NoCall /\ hAnalyze = NoCall /\ hGenerate = NoCall
    /\ prompt = PromptIdle /\ hSubmit = NoSubmit
    /\ appsPage = AppsIdle /\ hGenerateApp = NoGenerations
    /\ manager = NoManager

NextPrompt ==
    \/ \E p \in Prompts : setFormData("prompt", p)
    \/ \E p \in ejemplosPrompts : setFormData("prompt", p)
    \/ \E n \in Nombres : setFormData("nombre", n)
    \/ \E t \in ProjectTypes : setFormData("project_type", t)
    \/ handleSubmit
    \/ \E resp \in ApiCreateResponses, g \in GeneratedNames :
          handleSubmitCreated(resp, g)
    \/ \E resp \in ApiGenerateResponses : handleSubmitGenerated(resp)
    \/ navigateAfterSuccess
    \/ handleGoBack

SpecPrompt == InitPrompt /\ [][NextPrompt]_vars

(***************************************************************************)
(* SpecApp: one of the screens, whichever the session was opened at.  On   *)
(* the image screen the cached user may be missing: ProtectedRoute asks    *)
(* for the token only.                                                     *)
(***************************************************************************)
InitApp ==
    /\ args = NoArgs /\ ret = NoRet
    /\ \/ /\ location = ImagePath
          /\ localStorage \in {Session("tok", u) : u \in {"valid", ""}}
       \/ /\ location = PromptPath
          /\ localStorage \in {Session("tok", u) : u \in {"valid", "noid", "garbage", ""}}
       \/ /\ location = ListPath
          /\ localStorage = Session("tok", "valid")
       \/ /\ location = HomePath
          /\ localStorage \in {Session("tok", u) : u \in {"valid", ""}}
    /\ browser = NoBrowser
    /\ image = ImageIdle
    /\ hImageChange = NoCall /\ hAnalyze = NoCall /\ hGenerate = NoCall
    /\ prompt = PromptIdle /\ hSubmit = NoSubmit
    /\ appsPage = AppsIdle /\ hGenerateApp = NoGenerations
    /\ manager = IF location = HomePath
                 THEN [loadMobileApps(NoManager) EXCEPT !.mounted = TRUE, !.getAll = 1]
                 ELSE NoManager

NextApp == Next \/ NextPrompt \/ NextList \/ NextManager

SpecApp == InitApp /\ [][NextApp]_vars

(***************************************************************************)
(* Properties of the image helpers, checked under SpecCodec.               *)
(***************************************************************************)

\* The raster format a declared media type names; "image/jpg" is a second
\* spelling of JPEG's media type.
RasterFormatOf(type) ==
    CASE type \in {"image/jpeg", "image/jpg"} -> "jpeg"
      [] type = "image/png" -> "png"
      [] type = "image/gif" -> "gif"
      [] type = "image/webp" -> "webp"
      [] OTHER -> "none"

\* C1: validateImageFile accepts a file exactly when its declared type names
\* one of the four raster formats JPEG, PNG, GIF, WebP and its size is at
\* most 20 MiB (a file of exactly 20 MiB is accepted); a rejection carries
\* an error message.
C1_ValidateImageFile ==
    ret.applied = "validate" =>
        /\ ret.validation.valid =
              (/\ RasterFormatOf(args.file.type) \in {"jpeg", "png", "gif", "webp"}
               /\ args.file.size <= 20 * 1024 * 1024)
        /\ ~ret.validation.valid => ret.validation.error # ""

\* C1 witness: a file of an allowed type and of exactly 20 MiB was accepted.
C1_Witness ==
    /\ ret.applied = "validate"
    /\ args.file.type = "image/webp"
    /\ args.file.size = 20 * 1024 * 1024
    /\ ret.validation.valid

\* C2 as stated: when compressImage succeeds, a source no wider than
\* maxWidth keeps its size, and a wider one gets width maxWidth and the
\* height h * maxWidth / w rounded to the nearest integer.
C2_HeightRoundedToNearest ==
    (ret.applied = "compress" /\ ret.compressed.ok) =>
        LET w == args.file.width
            h == args.file.height
            M == args.maxWidth
            c == ret.compressed.canvas
            d == c.height * w - h * M
        IN  /\ w <= M => c = [width |-> w, height |-> h]
            /\ w > M => /\ c.width = M
                        /\ 2 * d <= w /\ -(2 * d) <= w

\* C2 amended: when compressImage succeeds, the output is never wider than
\* maxWidth; a source no wider than maxWidth keeps its size, and a wider one
\* gets width maxWidth and the height h * maxWidth / w with its fraction
\* dropped (the greatest integer not above it).
C2_HeightTruncated ==
    (ret.applied = "compress" /\ ret.compressed.ok) =>
        LET w == args.file.width
            h == args.file.height
            M == args.maxWidth
            c == ret.compressed.canvas
        IN  /\ c.width <= M
            /\ w <= M => c = [width |-> w, height |-> h]
            /\ w > M => /\ c.width = M
                        /\ c.height * w <= h * M
                        /\ h * M < (c.height + 1) * w

\* C2 witness: a 5000x3000 source compressed with maxWidth 1024 came out as
\* 1024x614.
C2_Witness ==
    /\ ret.applied = "compress" /\ ret.compressed.ok
    /\ args.file.width = 5000 /\ args.file.height = 3000
    /\ args.maxWidth = 1024
    /\ ret.compressed.canvas = [width |-> 1024, height |-> 614]

\* C15 as stated: every file the validator accepts goes through the
\* compression path of the upload pipeline, never the FileReader path, and
\* the format reported for the encoded image that results is "jpeg".
C15_AcceptedFilesBecomeJpeg ==
    (ret.applied = "upload" /\ ret.validation.valid) =>
        /\ ret.path = "compressImage"
        /\ ret.encoded.ok => ret.info.format = Str(<<"j", "p", "e", "g">>, 0)

\* C16 as stated: every body posted to /mobile-generator by create,
\* createFromXml or createFromMockup holds project_type, holds user_id, and
\* holds exactly one of the content sources xml, prompt, mockup_id.
C16_CreateBodies ==
    (ret.applied \in ApiKinds /\ ret.posted.sent) =>
        LET keys == DOMAIN ret.posted.body IN
        /\ "project_type" \in keys
        /\ "user_id" \in keys
        /\ Cardinality(keys \cap {"xml", "prompt", "mockup_id"}) = 1

\* An encoded image string "T/F;payload": the prefix before its first ';'
\* holds exactly one '/', and F, the tag after it, is not empty.
IsEncodedImage(s) ==
    LET i == IndexOf(s.h, "/")
        j == IndexOf(s.h, ";")
    IN  /\ i > 0 /\ j > i + 1
        /\ \A m \in (i + 1)..(j - 1) : s.h[m] # "/"

FormatTagOf(s) ==
    Str(SubSeq(s.h, IndexOf(s.h, "/") + 1, IndexOf(s.h, ";") - 1), 0)

\* C3: for a string of length L, getImageInfo reports sizeKB as the integer
\* nearest to 3L/4/1024 (a half rounds up), and for an encoded image string
\* it reports as format the tag between the first '/' and the first ';';
\* it reports "unknown" only for a string that has no such tag.
C3_GetImageInfo ==
    ret.applied = "info" =>
        LET s == args.base64Image
            L == length(s)
            k == ret.info.sizeKB
        IN  /\ 8192 * k - 4096 <= 6 * L
            /\ 6 * L < 8192 * k + 4096
            /\ IsEncodedImage(s) => ret.info.format = FormatTagOf(s)
            /\ ret.info.format = unknown => ~IsEncodedImage(s)

\* C3 witness: an encoded image string of 2048 characters, for which 3L/4/1024
\* is exactly one and a half, was reported as 2 KB with its tag as format.
C3_Witness ==
    /\ ret.applied = "info"
    /\ IsEncodedImage(args.base64Image)
    /\ length(args.base64Image) = 2048
    /\ ret.info = [sizeKB |-> 2, format |-> FormatTagOf(args.base64Image)]

(***************************************************************************)
(* Properties of the prompt screen, checked under SpecPrompt.              *)
(***************************************************************************)

\* C4 as stated: a submission of the prompt form is rejected (error message
\* set, no remote call) when the prompt's length after trimming is below 10,
\* and accepted (createFromPrompt is called) when it is 10 or more.
C4_TrimmedLengthDecides ==
    [][handleSubmit =>
          IF Len(trim(prompt.formData.prompt)) < MinPromptLength
          THEN /\ hSubmit'.ended = "validation"
               /\ prompt'.error # "" /\ hSubmit'.reqs = <<>>
          ELSE hSubmit'.ended # "validation"]_vars

Last(seq) == seq[Len(seq)]

\* C8 as stated, for the prompt workflow: whenever the generate response is
\* not archive-typed, no download is triggered and the workflow ends failed.
C8_ContentTypeAuthoritative ==
    (/\ hSubmit.pc = "idle" /\ Len(hSubmit.resps) = 2
     /\ ~isZip(hSubmit.resps[2])) =>
        /\ hSubmit.dom = <<>> /\ hSubmit.download = NoDownload
        /\ hSubmit.ended = "generate"
        /\ browser = NoBrowser

\* A call of the prompt workflow has just been answered with a 401.
Answered401 ==
    /\ hSubmit.pc # "idle" /\ hSubmit'.pc = "idle"
    /\ Len(hSubmit'.resps) = Len(hSubmit.resps) + 1
    /\ Last(hSubmit'.resps).kind = "http"
    /\ Last(hSubmit'.resps).status = 401

\* C10 as stated: when a call of the workflow is answered with a 401, the
\* workflow's failure handler does not run: no error message is set and the
\* loading flag is not touched.
C10_ErrorPathBypassed ==
    [][Answered401 => prompt'.error = prompt.error
                      /\ prompt'.loading = prompt.loading]_vars

\* C10 amended: when a call of the prompt workflow is answered with a 401,
\* the global interception signs out (token and cached user removed) and
\* redirects to the login view, and the rejection still reaches the
\* workflow's own error path: on the screen, if still shown, the catch sets
\* the message of the "unknown" category and the finally clears loading.
C10_InterceptedThenHandled ==
    [][Answered401 =>
          /\ localStorage'.token = "" /\ localStorage'.user = ""
          /\ location' = LoginPath
          /\ location = PromptPath =>
                prompt'.error = MsgCreating /\ ~prompt'.loading]_vars

\* C10 witness: the create call was answered with a 401; the session is
\* gone, the login view is shown, and the screen got the catch's message.
C10_Witness ==
    /\ hSubmit.ended = "create" /\ Last(hSubmit.resps).status = 401
    /\ localStorage = Session("", "") /\ location = LoginPath
    /\ prompt.error = MsgCreating /\ ~prompt.loading

(***************************************************************************)
(* Properties of the image screen, checked under Spec.                     *)
(***************************************************************************)

\* The analyze exchange of a generate action has just ended.
AnalyzeAnswered ==
    /\ hGenerate.pc = "analyze" /\ hGenerate'.pc # "analyze"
    /\ Len(hGenerate'.resps) = 1

\* C5: when the analyze step of a generate action yields a non-success
\* result with error X, or a success result without a description, the
\* screen's error message becomes X (a default message when X is absent),
\* the action ends, and it has sent neither the create nor the generate
\* request.
C5_AnalyzeFailureSurfaced ==
    [][AnalyzeAnswered =>
          LET r == analyzeImageForProject(hGenerate'.resps[1]) IN
          (~r.success \/ r.description = "") =>
              /\ image'.error = (IF r.error # "" THEN r.error ELSE MsgAnalyzing)
              /\ ~image'.isGenerating
              /\ hGenerate'.pc = "idle"
              /\ hGenerate'.reqs = <<"analyze">>]_vars

\* C5 witness: a generate action ended at its analyze step, whose result was
\* a non-success with error "X"; "X" is shown and only analyze was sent.
C5_Witness ==
    /\ hGenerate.pc = "idle" /\ hGenerate.ended = "analyze"
    /\ ~analyzeImageForProject(hGenerate.resps[1]).success
    /\ analyzeImageForProject(hGenerate.resps[1]).error = "X"
    /\ image.error = "X"
    /\ hGenerate.reqs = <<"analyze">>

StepOrder == <<"analyze", "create", "generate">>

IsPrefix(s, t) == Len(s) <= Len(t) /\ \A i \in 1..Len(s) : s[i] = t[i]

\* Step i of a generate action completed successfully with response resp: a
\* successful analysis with a description, a created app, an archive.
StepSucceeded(i, resp) ==
    CASE i = 1 -> LET r == analyzeImageForProject(resp) IN
                  r.success /\ r.description # ""
      [] i = 2 -> ok(resp) /\ resp.body.parsable
      [] OTHER -> ok(resp) /\ isZip(resp)

\* The error message step i reports for the response it failed on.
StepMessage(i, resp) ==
    CASE i = 1 -> analysisFailure(analyzeImageForProject(resp)).error
      [] i = 2 -> createFailure(resp).error
      [] OTHER -> generateResult(resp).error

\* The requests of a generate action are sent in the order analyze, create,
\* generate, one at a time, each after the success of the one before; an
\* action whose last step failed has sent no later request and has
\* triggered no download.
StrictOrder ==
    LET reqs == hGenerate.reqs
        resps == hGenerate.resps
    IN  /\ IsPrefix(reqs, StepOrder)
        /\ Len(resps) <= Len(reqs) /\ Len(reqs) <= Len(resps) + 1
        /\ \A i \in 1..(Len(reqs) - 1) : StepSucceeded(i, resps[i])
        /\ (resps # <<>> /\ ~StepSucceeded(Len(resps), Last(resps))) =>
              /\ hGenerate.pc = "idle" /\ Len(reqs) = Len(resps)
              /\ hGenerate.ended = StepOrder[Len(resps)]
              /\ hGenerate.dom = <<>> /\ hGenerate.download = NoDownload

\* A step of a generate action has just failed: the screen is in the failed
\* state with that step's message, and nothing was downloaded.
FailureShown ==
    (/\ Len(hGenerate'.resps) = Len(hGenerate.resps) + 1
     /\ ~StepSucceeded(Len(hGenerate'.resps), Last(hGenerate'.resps))) =>
        /\ image'.error = StepMessage(Len(hGenerate'.resps), Last(hGenerate'.resps))
        /\ image'.error # ""
        /\ ~image'.isGenerating
        /\ browser' = browser

\* C6: the remote steps of a generate action run in the strict order
\* analyze, create, generate, each started only after the one before it
\* completed successfully; a failure of any step sends none of the later
\* requests, triggers no download, and ends the action in the failed state
\* with the failing step's error message.
C6_StrictSequence == [](StrictOrder) /\ [][FailureShown]_vars

\* C6 witness: a generate action whose analyze step succeeded and whose
\* create step failed: generate was never sent, nothing was downloaded, and
\* the create step's message is shown.
C6_Witness ==
    /\ hGenerate.pc = "idle" /\ hGenerate.ended = "create"
    /\ hGenerate.reqs = <<"analyze", "create">>
    /\ Len(hGenerate.resps) = 2
    /\ StepSucceeded(1, hGenerate.resps[1])
    /\ ~StepSucceeded(2, hGenerate.resps[2])
    /\ image.error = StepMessage(2, hGenerate.resps[2])
    /\ hGenerate.dom = <<>> /\ browser.blobUrls = 0

\* C7 as stated: while any of compressing, analyzing and generating is in
\* flight, neither the analyze nor the generate action can be started; at
\* most one busy flag is true, and no two handler runs overlap.
C7_OneStepAtATime ==
    LET busy == {f \in {"isCompressing", "isAnalyzing", "isGenerating"} : image[f]}
        running == {h \in {"change", "analyze", "generate"} :
                       CASE h = "change" -> hImageChange.pc # "idle"
                         [] h = "analyze" -> hAnalyze.pc # "idle"
                         [] OTHER -> hGenerate.pc # "idle"}
    IN  /\ busy # {} => analyzeDisabled /\ generateDisabled
        /\ Cardinality(busy) <= 1
        /\ Cardinality(running) <= 1

\* C9 as stated, for the calls of the image screen: once a remote call has
\* been answered with a 401, the stored token and the cached user are
\* removed and the browser is at the login view.
C9_SignOutOn401 ==
    \A h \in {hAnalyze, hGenerate} :
        (\E i \in 1..Len(h.resps) :
            h.resps[i].kind = "http" /\ h.resps[i].status = 401) =>
        /\ localStorage.token = "" /\ localStorage.user = ""
        /\ location = LoginPath

\* C12: analyzeImageForProject never throws: whatever the exchange ends in
\* (no response, a non-2xx status, an unparsable body, a 2xx envelope) the
\* caller gets a result value; for an envelope with success false the
\* result's error is the envelope's error string as it is; for a transport
\* failure the result is a non-success with a non-empty error.
C12_AnalyzeNeverThrows ==
    \A h \in {hAnalyze, hGenerate} :
        (h.resps # <<>>) =>
            LET resp == h.resps[1]
                r == analyzeImageForProject(resp)
            IN  /\ ~r.rejected /\ h.ended # "catch"
                /\ (ok(resp) /\ resp.body.parsable /\ ~resp.body.success) =>
                      ~r.success /\ r.error = resp.body.error
                /\ resp.kind = "network" => ~r.success /\ r.error # ""

\* C12 witness: analyze actions ended on a transport failure and on an
\* envelope with success false and error "X"; each got a result value.
C12_Witness ==
    /\ hAnalyze.pc = "idle" /\ hAnalyze.ended = "analyze"
    /\ hAnalyze.resps = <<NetworkError>>
    /\ hGenerate.pc = "idle" /\ hGenerate.ended = "analyze"
    /\ hGenerate.resps # <<>> /\ hGenerate.resps[1].body.error = "X"
    /\ image.error \in {"X", MsgFailedToFetch}

\* C14 as stated: when a generate action fully succeeds, the download has
\* been triggered and the transient state is at its idle defaults (no
\* selected image, no preview, no image info, no analysis text, no project
\* name), the generating flag is false and there is no error message.
C14_IdleAfterSuccess ==
    [][(/\ hGenerate.pc = "generate" /\ hGenerate'.pc = "idle"
        /\ hGenerate'.ended = "done") =>
          /\ \E i \in 1..Len(hGenerate'.dom) : hGenerate'.dom[i] = "click"
          /\ image'.formData.imageFile = NoFile
          /\ image'.formData.projectName = <<>>
          /\ image'.imagePreview = EmptyStr /\ image'.imageInfo = NoInfo
          /\ image'.analysisResult = ""
          /\ ~image'.isGenerating
          /\ image'.error = ""]_vars

(***************************************************************************)
(* Properties of the whole frontend, checked under SpecApp.                *)
(***************************************************************************)

\* The caller's identity is present: the cached user parses and has an id.
IdentityPresent == ~noUserId(getCurrentUser(localStorage).user)

\* The call h has just sent the request of step and now awaits its answer
\* (hNext is h after the transition).
Sent(h, hNext, step) == h.pc # step /\ hNext.pc = step

\* C11 as stated: no POST /mobile-generator/from-prompt is sent while the
\* caller's identity is absent, by the prompt workflow or by the image
\* workflow.
C11_NoCreateWithoutIdentity ==
    [][(Sent(hSubmit, hSubmit', "create") \/ Sent(hGenerate, hGenerate', "create"))
          => IdentityPresent]_vars

\* How many times a sequence of browser calls clicks a download anchor.
Clicks(dom) == Cardinality({i \in 1..Len(dom) : dom[i] = "click"})

\* The generate call of the prompt workflow has just returned an archive.
PromptArchived ==
    /\ hSubmit.pc = "generate" /\ hSubmit'.pc = "idle"
    /\ ok(Last(hSubmit'.resps)) /\ isZip(Last(hSubmit'.resps))

\* The generate action of the image workflow has just succeeded.
ImageArchived ==
    /\ hGenerate.pc = "generate" /\ hGenerate'.pc = "idle"
    /\ hGenerate'.ended = "done"

\* What both workflows do on an archive, but for the name of the prompt
\* workflow's download: one download, the screen succeeded, and the image
\* workflow's download named from the submitted name and kind.
ArchiveDownloaded ==
    /\ PromptArchived =>
          /\ Clicks(hSubmit'.dom) = 1
          /\ hSubmit'.download.projectType = hSubmit.app.project_type
          /\ location = PromptPath => prompt'.success
    /\ ImageArchived =>
          /\ Clicks(hGenerate'.dom) = 1
          /\ hGenerate'.download =
                [name |-> hGenerate.formData.projectName,
                 projectType |-> hGenerate.formData.projectType]
          /\ image'.success # ""

\* C13 as stated: when createFromPrompt succeeded and generateProject
\* returns an archive, exactly one download is triggered, named
\* "{name}-{projectType}.zip" with the name and kind of the created record,
\* and the workflow becomes succeeded; the image workflow names its download
\* the same way from the submitted name and kind.
C13_NamedByRecord ==
    [][/\ ArchiveDownloaded
       /\ PromptArchived => hSubmit'.download.name = hSubmit.app.nombre]_vars

\* C13 amended: as stated, except that the prompt workflow's download is
\* named "mobile-app-{projectType}.zip" when the created record has no name.
C13_NamedByRecordOrDefault ==
    [][/\ ArchiveDownloaded
       /\ PromptArchived =>
             hSubmit'.download.name =
                IF hSubmit.app.nombre # <<>> THEN hSubmit.app.nombre
                ELSE <<"m", "o", "b", "i", "l", "e", "-", "a", "p", "p">>]_vars

\* C13 witness: the prompt workflow downloaded an archive for a record
\* without a name, under the name "mobile-app" and the record's kind.
C13_Witness ==
    /\ hSubmit.ended = "done" /\ isZip(Last(hSubmit.resps))
    /\ hSubmit.app.nombre = <<>> /\ hSubmit.app.project_type = "angular"
    /\ hSubmit.download =
          [name |-> <<"m", "o", "b", "i", "l", "e", "-", "a", "p", "p">>,
           projectType |-> "angular"]
    /\ Clicks(hSubmit.dom) = 1 /\ prompt.success

(***************************************************************************)
(* The frame of a failed analyze action (Spec).                            *)
(***************************************************************************)

\* The screen state an analyze action that fails is said to leave alone.
AnalyzeFrame(state) ==
    [imageFile |-> state.formData.imageFile, imagePreview |-> state.imagePreview,
     imageInfo |-> state.imageInfo, analysisResult |-> state.analysisResult,
     success |-> state.success, projectName |-> state.formData.projectName,
     projectType |-> state.formData.projectType]

\* A step of an analyze action, other than the one that completes it with a
\* description.
AnalyzeStepNotSucceeding ==
    /\ hAnalyze' # hAnalyze
    /\ hAnalyze'.ended # "done"

\* C17 as stated: an analyze action that fails sets only the error message
\* and the analyzing flag: none of its steps changes the selected image,
\* the preview, the image info, the analysis description held before, the
\* success message, the project name or the project kind.
C17_FailureSetsOnlyError ==
    [][AnalyzeStepNotSucceeding => AnalyzeFrame(image') = AnalyzeFrame(image)]_vars

(***************************************************************************)
(* The resources of a download (SpecApp).                                  *)
(***************************************************************************)

\* How often a browser call occurs in the calls of a download, and where.
Count(dom, op) == Cardinality({i \in 1..Len(dom) : dom[i] = op})

Pos(dom, op) == CHOOSE i \in 1..Len(dom) : dom[i] = op

\* The calls of a download: one object URL and one anchor, both there before
\* the click, the URL revoked and the anchor removed after it.
Scoped(dom) ==
    /\ \A op \in {"createObjectURL", "appendChild", "click", "revokeObjectURL",
                  "removeChild"} : Count(dom, op) = 1
    /\ Pos(dom, "createObjectURL") < Pos(dom, "click")
    /\ Pos(dom, "appendChild") < Pos(dom, "click")
    /\ Pos(dom, "click") < Pos(dom, "revokeObjectURL")
    /\ Pos(dom, "click") < Pos(dom, "removeChild")

\* The calls that ended last, by workflow: whether the generation succeeded,
\* and the browser calls made.
LastDownloads ==
    {[succeeded |-> /\ hGenerate.ended = "done"
                    /\ ok(Last(hGenerate.resps)) /\ isZip(Last(hGenerate.resps)),
      dom |-> hGenerate.dom],
     [succeeded |-> hSubmit.ended = "done" /\ ok(Last(hSubmit.resps)),
      dom |-> hSubmit.dom]}
    \cup
    {[succeeded |-> /\ hGenerateApp[id].ended = "done"
                    /\ ok(Last(hGenerateApp[id].resps)),
      dom |-> hGenerateApp[id].dom] : id \in AppIds}

PromptRejected(p) == trim(p) = <<>> \/ Len(p) < MinPromptLength

\* What the generate action's validation turns down.
GenerateRejected(formData) ==
    formData.imageFile = NoFile \/ trim(formData.projectName) = <<>>

\* No call is under way on input its validation turns down: no compression
\* of a file the validator rejects, no generate call without an image or a
\* name, no submit of a rejected prompt.
OnlyValidatedCalls ==
    /\ hImageChange.pc # "idle" =>
          validateImageFile(hImageChange.formData.imageFile).valid
    /\ hGenerate.pc # "idle" => ~GenerateRejected(hGenerate.formData)
    /\ hSubmit.pc # "idle" => ~PromptRejected(hSubmit.formData.prompt)

\* The handler step taken on input the validation turns down sets an error
\* message and does nothing else: no call starts, no request is sent, no
\* busy flag changes, the browser and the session are left alone.
RejectedAtOnce ==
    /\ (\E file \in ImageFiles :
           handleImageChange(file) /\ ~validateImageFile(file).valid) =>
          /\ image'.error # "" /\ browser' = browser
          /\ hImageChange' = hImageChange
          /\ [image' EXCEPT !.error = ""] = [image EXCEPT !.error = ""]
    /\ (handleGenerateProject /\ GenerateRejected(image.formData)) =>
          /\ image'.error # "" /\ browser' = browser
          /\ hGenerate'.pc = "idle" /\ hGenerate'.reqs = <<>>
          /\ [image' EXCEPT !.error = ""] = [image EXCEPT !.error = ""]
    /\ (handleSubmit /\ PromptRejected(prompt.formData.prompt)) =>
          /\ prompt'.error # "" /\ browser' = browser
          /\ localStorage' = localStorage
          /\ hSubmit'.pc = "idle" /\ hSubmit'.reqs = <<>>
          /\ [prompt' EXCEPT !.error = ""] = [prompt EXCEPT !.error = ""]

NoDuplicate(reqs) ==
    \A i, j \in 1..Len(reqs) : reqs[i] = reqs[j] => i = j

\* Each call of a handler has requested each remote operation at most once,
\* has no more answers than requests, and has no request open once it ended.
OncePerAction ==
    \A h \in {hAnalyze, hGenerate, hSubmit} :
        /\ NoDuplicate(h.reqs)
        /\ Len(h.resps) <= Len(h.reqs)
        /\ h.pc = "idle" => Len(h.resps) = Len(h.reqs)

\* A handler that is idle, having failed or succeeded or never run, sends a
\* request only through a new action of the user; so does the app list, where
\* a request is added only by a click on a generate button.
OnlyUserActionsSend ==
    /\ (hAnalyze.pc = "idle" /\ hAnalyze' # hAnalyze) => handleAnalyzeImage
    /\ (hGenerate.pc = "idle" /\ hGenerate' # hGenerate) => handleGenerateProject
    /\ (hSubmit.pc = "idle" /\ hSubmit'.pc # "idle") => handleSubmit
    /\ \A app \in MobileApps :
          hGenerateApp'[app.id].pending > hGenerateApp[app.id].pending =>
             /\ handleGenerate(app)
             /\ hGenerateApp'[app.id].pending = hGenerateApp[app.id].pending + 1

\* C20: nothing is retried.  Within one action of the user analyze, create
\* and generate are each requested at most once, whatever they are answered;
\* and once a handler has ended, in failure or in success, no request is
\* sent until the user acts again.
C20_NothingRetried ==
    []OncePerAction /\ [][OnlyUserActionsSend]_vars

\* C20 witness: a generate action of the image screen got as far as the
\* generate request, which failed; the call has ended with its three
\* requests sent once each.
C20_Witness ==
    /\ hGenerate.pc = "idle" /\ hGenerate.ended = "generate"
    /\ hGenerate.reqs = StepOrder /\ Len(hGenerate.resps) = 3
    /\ image.error # "" /\ ~image.isGenerating

(***************************************************************************)
(* The message of a failed submit (SpecPrompt).                            *)
(***************************************************************************)

\* The message the status of a failure stands for; 0 is a failure that
\* reports no status.
Classified(status) ==
    CASE status = 400 -> MsgVerify
      [] status = 500 -> MsgServer
      [] OTHER -> MsgCreating

\* The step on which createFromPrompt or generateProject fails, on the
\* mounted screen: the status the failure reports.
SubmitFailsWith(status) ==
    /\ location = PromptPath
    /\ \/ /\ hSubmit.pc \in {"create", "generate"}
          /\ hSubmit'.pc = "idle" /\ hSubmit'.ended = hSubmit.pc
          /\ status = errorStatus(Last(hSubmit'.resps))
       \/ /\ handleSubmit /\ hSubmit'.ended = "identity"
          /\ status = 0

\* C21: when createFromPrompt or generateProject fails, the one message
\* shown is chosen by the status the failure reports: 400 gives the
\* precondition-violation message, 500 the transient-server message, and any
\* other failure (another status, no response, no identity) the unknown
\* message; loading is false afterwards and success stays false.
C21_ClassifiedByStatus ==
    [][\A status \in {0, 400, 401, 500} :
          SubmitFailsWith(status) =>
             /\ prompt'.error = Classified(status)
             /\ ~prompt'.loading /\ ~prompt'.success]_vars

\* C21 witness: generateProject was answered with a 500, and the screen
\* shows the transient-server message, not loading and not succeeded.
C21_Witness ==
    /\ location = PromptPath
    /\ hSubmit.ended = "generate" /\ errorStatus(Last(hSubmit.resps)) = 500
    /\ prompt.error = MsgServer /\ ~prompt.loading /\ ~prompt.success

(***************************************************************************)
(* The preview and the selected file (Spec).                               *)
(***************************************************************************)

\* C22 as stated: whenever the preview or the image info is non-empty, an
\* image file is selected, under any interleaving of file selection, clear
\* and compression; a clear made while a compression is in flight is not
\* undone when the compression completes.
C22_PreviewImpliesFile ==
    (image.imagePreview # EmptyStr \/ image.imageInfo # NoInfo) =>
        image.formData.imageFile # NoFile

\* C23 as stated: whenever no compression is in flight and an image file is
\* selected, the preview is the compressed form of that file; a file whose
\* compression failed is not left selected, and the preview of an earlier
\* file is not shown beside a later one.
C23_PreviewOfSelectedFile ==
    (~image.isCompressing /\ image.formData.imageFile # NoFile) =>
        LET r == fileToBase64(image.formData.imageFile, TRUE)
        IN  r.ok /\ image.imagePreview = r.dataUrl

(***************************************************************************)
(* The generate buttons of the app list (SpecApp).                         *)
(***************************************************************************)

\* C24 as stated: while a generate request for an app is in flight the
\* generate button of that app is disabled, whatever is started or finished
\* for other apps; so no two generate requests for one app overlap.
C24_ButtonDisabledWhilePending ==
    \A app \in MobileApps :
        /\ (location = ListPath /\ hGenerateApp[app.id].pending > 0) =>
              generateButtonDisabled(app)
        /\ hGenerateApp[app.id].pending <= 1

(***************************************************************************)
(* The create button of the manager (SpecManager).                         *)
(***************************************************************************)

\* C25 as stated: while a create request is in flight the manager's submit
\* button stays disabled (loading is true), whatever list reloads start or
\* finish meanwhile; so two create requests never overlap.
C25_LoadingWhileCreating ==
    /\ (ManagerMounted /\ manager.create > 0) => createDisabled
    /\ manager.create <= 1

(***************************************************************************)
(* Busy flags (SpecApp).                                                   *)
(***************************************************************************)

\* C26: every busy flag is released.  Once the calls of a handler have
\* settled, by success, by a failure result or by an exception, the flag the
\* handler raised is back to its idle value on the screen that shows it:
\* isCompressing, isAnalyzing and isGenerating on the image screen, loading
\* on the prompt screen and in the manager, generatingId on the app list.
C26_BusyFlagsReleased ==
    /\ hImageChange.pc = "idle" => ~image.isCompressing
    /\ hAnalyze.pc = "idle" => ~image.isAnalyzing
    /\ hGenerate.pc = "idle" => ~image.isGenerating
    /\ (location = PromptPath /\ hSubmit.pc = "idle") => ~prompt.loading
    /\ (location = ListPath /\ \A id \in AppIds : hGenerateApp[id].pending = 0) =>
          appsPage.generatingId = ""
    /\ (ManagerMounted /\ InFlight = 0) => ~manager.loading

\* C26 witness: createFromPrompt was rejected without a response; the prompt
\* screen is not loading.
C26_Witness ==
    /\ location = PromptPath /\ hSubmit.pc = "idle"
    /\ hSubmit.ended = "create" /\ Last(hSubmit.resps) = NetworkError
    /\ ~prompt.loading /\ prompt.error # ""

(***************************************************************************)
(* The stored session (SpecSession).                                       *)
(***************************************************************************)

\* C27: after any sequence of login, register, logout, getCurrentUser and
\* 401 handling, the token is in storage if and only if a cached user that
\* parses is; so when isAuthenticated() is true, getCurrentUser() returns a
\* user.
C27_TokenIffUser ==
    /\ localStorage.token # "" <=> localStorage.user \in {"valid", "noid"}
    /\ isAuthenticated(localStorage) => getCurrentUser(localStorage).user # ""

\* C27 witness: after a login, on a protected page, getCurrentUser was
\* called and returned the user, the token still stored.
C27_Witness ==
    /\ ret.applied = "getCurrentUser" /\ ret.returned # ""
    /\ location \in ProtectedPaths /\ isAuthenticated(localStorage)

(***************************************************************************)
(* The messages, the object URLs and the rejected file of the image screen *)
(* (Spec).                                                                 *)
(***************************************************************************)

\* C28 as stated: on the image screen the error message and the success
\* message are never both non-empty, after any sequence of file selection,
\* analyze, generate and clear actions.
C28_ErrorOrSuccess == ~(image.error # "" /\ image.success # "")

\* C29 as stated: the object URL compressImage creates for the source file
\* is released once the image has loaded or failed to load: while no
\* fileToBase64 call is pending, none is allocated.
C29_FileUrlsReleased ==
    (\A h \in {hImageChange, hAnalyze, hGenerate} : h.pc # "fileToBase64") =>
        browser.fileUrls = 0

\* The selected file, whenever there is one, is a file the validator accepts,
\* and so is the file a pending analyze or generate call works on.
SelectedFileAccepted ==
    \A file \in {image.formData.imageFile, hAnalyze.formData.imageFile,
                 hGenerate.formData.imageFile} :
        file # NoFile => validateImageFile(file).valid

\* Selecting a file the validator rejects changes the error message and
\* nothing else.
RejectedFileSetsOnlyError ==
    \A file \in ImageFiles :
        (handleImageChange(file) /\ ~validateImageFile(file).valid) =>
            /\ image' = [image EXCEPT !.error = validateImageFile(file).error]
            /\ UNCHANGED <<hImageChange, hAnalyze, hGenerate, browser>>

\* C30: selecting a file that the validator rejects changes only the error
\* message: the selected file, its preview, its info, the analysis text and
\* the busy flags stay, so an analyze or generate action works on the file
\* accepted before.
C30_RejectedFileLeavesSelection ==
    []SelectedFileAccepted /\ [][RejectedFileSetsOnlyError]_vars

\* C30 witness: with an accepted file selected and previewed, a file of a
\* type the validator rejects was selected: its error is shown beside the
\* earlier file and preview.
C30_Witness ==
    /\ image.error = validateImageFile(Pdf).error
    /\ image.formData.imageFile = GoodPng
    /\ image.imagePreview = fileToBase64(GoodPng, TRUE).dataUrl
    /\ ~image.isCompressing

============================================================================
